---------------------------- MODULE Spec2Model ----------------------------
(***************************************************************************)
(* A model of the automated trading core of CryptoTrader                   *)
(* (src/crypto_trading_system/src/automation): the StopLossManager and     *)
(* RiskManager, the decision engine with its PortfolioManager, the         *)
(* TradeExecutor with its OrderManager, and the AutomatedTrader loop.      *)
(*                                                                         *)
(* Money and prices are whole dollars, percentages and confidences are     *)
(* whole percents (0.1 is 10, 0.75 is 75), times are whole seconds.  The   *)
(* input sets are chosen so that every product the code forms is exact.    *)
(***************************************************************************)
EXTENDS Integers, Sequences, FiniteSets, TLC

VARIABLES
    \* ---- StopLossManager (risk_manager.py)
    position_stops,     \* dict symbol -> stop config, in insertion order
    trailing_stop,      \* StopLossManager.trailing_stop
    \* ---- AutomatedDecisionEngine (decision_engine.py)
    recent_decisions,   \* list of [symbol, timestamp], for the cooldown
    decision_log,       \* every decision make_trading_decision has returned
    \* ---- OrderManager and TradeExecutor (trade_executor.py)
    active_orders,      \* dict order id -> order, in insertion order
    completed_orders,
    failed_orders,
    execution_history,
    daily_stats,
    \* ---- RiskManager (risk_manager.py)
    daily_pnl,
    last_reset,         \* the day daily_pnl was last reset on
    risk_alerts,
    \* ---- AutomatedTrader (auto_trader.py)
    is_running,
    trading_enabled,
    trading_stats,
    last_trading_cycle,
    pc,                 \* where the thread of _trading_loop stands
    cycle,              \* the locals of the cycle _trading_loop is in
    estop,              \* where a call of emergency_stop stands
    old_threads,        \* the loop threads of an earlier start_trading
                        \* that a later start_trading found alive, and
                        \* the counter such a thread has loaded for +=
    pool,               \* the thread pool of analyze_all_coins and the
                        \* locals of the call that is under way
    \* ---- CryptoMonitor (monitor.py)
    monitor,            \* is_running, last_analysis, and where the thread
                        \* of monitoring_loop stands
    \* ---- the exchange gateway (api/clients.py)
    demo_mode,          \* DEMO_MODE
    orders_accepted,    \* the orders the gateway has accepted so far
    \* ---- the wall clock, datetime.now() in seconds
    now,
    \* ---- the last call made on a component and what it returned
    call,
    ret

ExecutorVars ==
    << active_orders, completed_orders, failed_orders, execution_history,
       daily_stats >>

TraderVars ==
    << daily_pnl, last_reset, risk_alerts, is_running, trading_enabled, trading_stats,
       last_trading_cycle, pc, cycle, estop >>

vars ==
    << position_stops, trailing_stop, recent_decisions, decision_log,
       ExecutorVars, TraderVars, demo_mode, old_threads, pool, monitor, orders_accepted, now, call, ret >>

\* what the calls on the StopLossManager leave alone
NotStopVars ==
    << recent_decisions, decision_log, ExecutorVars, TraderVars, demo_mode, old_threads, pool, monitor,
       orders_accepted, now >>

\* what the calls on the decision engine leave alone
NotDecisionVars ==
    << position_stops, trailing_stop, ExecutorVars, TraderVars, demo_mode, old_threads, pool, monitor,
       orders_accepted >>

\* ------------------------------------------------------------------------
\* Input sets and program constants
\* ------------------------------------------------------------------------

Symbols ==
    {"BTC-USD", "ETH-USD"}

\* prices a ticker may report (Scenario C's 45000 / 49000 / 55000 included)
Prices ==
    {45000, 49000, 50000, 55000}

\* entry prices the stop-loss harness registers stops at
EntryPrices ==
    {50000, 55000}

\* StopLossManager.__init__ default_stop_loss = 0.1
default_stop_loss ==
    10

\* the custom percentage of the stop-loss harness
CustomStopPct ==
    20

\* an Optional argument: << >> is None, << v >> is the value v
None ==
    << >>

\* the stop_percentage arguments set_stop_loss is called with: absent, 0.0
\* (falsy: `stop_percentage or default`) and a custom one
StopPctArgs ==
    {None, << 0 >>, << CustomStopPct >>}

Max(a, b) ==
    IF a >= b THEN a ELSE b

\* ------------------------------------------------------------------------
\* StopLossManager
\* ------------------------------------------------------------------------

\* index of symbol's entry in the dict, 0 when it has none
StopIndex(stops, symbol) ==
    IF \E i \in 1..Len(stops) : stops[i].symbol = symbol
    THEN CHOOSE i \in 1..Len(stops) : stops[i].symbol = symbol
    ELSE 0

HasStop(stops, symbol) ==
    StopIndex(stops, symbol) # 0

StopOf(stops, symbol) ==
    stops[StopIndex(stops, symbol)]

\* price * (1 - pct)
StopPriceFor(price, pct) ==
    (price * (100 - pct)) \div 100

\* a plausible slip: the highest price starts at 0 and not at the entry
NewStopConfig_nohigh(symbol, entry_price, stop_percentage) ==
    LET stop_pct == IF stop_percentage = None \/ stop_percentage[1] = 0
                    THEN default_stop_loss ELSE stop_percentage[1]
    IN  [ symbol          |-> symbol,
          entry_price     |-> entry_price,
          stop_percentage |-> stop_pct,
          stop_price      |-> StopPriceFor(entry_price, stop_pct),
          highest_price   |-> 0,
          triggered       |-> FALSE,
          trigger_price   |-> 0 ]

\* the config set_stop_loss builds
NewStopConfig(symbol, entry_price, stop_percentage) ==
    LET stop_pct == IF stop_percentage = None \/ stop_percentage[1] = 0
                    THEN default_stop_loss ELSE stop_percentage[1]
    IN  [ symbol          |-> symbol,
          entry_price     |-> entry_price,
          stop_percentage |-> stop_pct,
          stop_price      |-> StopPriceFor(entry_price, stop_pct),
          highest_price   |-> entry_price,
          triggered       |-> FALSE,
          trigger_price   |-> 0 ]

\* position_stops[symbol] = stop_config: a present key keeps its place
set_stop_loss(stops, symbol, entry_price, stop_percentage) ==
    LET cfg == NewStopConfig(symbol, entry_price, stop_percentage)
        i   == StopIndex(stops, symbol)
    IN  IF i = 0 THEN Append(stops, cfg) ELSE [stops EXCEPT ![i] = cfg]

\* a plausible slip: the stop follows every price, not only a new high
update_trailing_stop_follow(stops, symbol, current_price, trailing) ==
    LET i   == StopIndex(stops, symbol)
        cfg == stops[i]
    IN  IF i = 0 \/ ~trailing THEN stops
        ELSE [stops EXCEPT ![i] =
                [cfg EXCEPT !.highest_price = Max(cfg.highest_price, current_price),
                            !.stop_price =
                                StopPriceFor(current_price, cfg.stop_percentage)]]

\* the stop map after update_trailing_stop(symbol, current_price)
update_trailing_stop(stops, symbol, current_price, trailing) ==
    LET i        == StopIndex(stops, symbol)
        cfg      == stops[i]
        new_stop == StopPriceFor(current_price, cfg.stop_percentage)
    IN  IF i = 0 THEN stops
        ELSE IF ~trailing THEN stops
        ELSE IF current_price > cfg.highest_price
             THEN [stops EXCEPT ![i] =
                     [cfg EXCEPT !.highest_price = current_price,
                                 !.stop_price =
                                     IF new_stop > cfg.stop_price
                                     THEN new_stop ELSE cfg.stop_price]]
             ELSE stops

\* the entry check_stop_triggers appends for a triggered stop
\* (loss_percentage in hundredths of a percent)
TriggeredEntry(cfg, current_price) ==
    [ symbol          |-> cfg.symbol,
      trigger_price   |-> current_price,
      stop_price      |-> cfg.stop_price,
      entry_price     |-> cfg.entry_price,
      loss_percentage |->
          ((cfg.entry_price - current_price) * 10000) \div cfg.entry_price ]

\* a plausible slip: a price equal to the stop does not trigger
StopTriggers_strict(current_price, stop_price) ==
    current_price < stop_price

\* the trigger test: current_price <= stop_config["stop_price"]
StopTriggers(current_price, stop_price) ==
    current_price <= stop_price

\* check_stop_triggers: the loop over position_stops from entry i on;
\* current_prices is a function from the symbols that have a price
RECURSIVE check_stop_triggers(_, _, _, _, _)
check_stop_triggers(stops, current_prices, trailing, i, triggered_stops) ==
    IF i > Len(stops) THEN [stops |-> stops, triggered_stops |-> triggered_stops]
    ELSE
        LET cfg == stops[i]
        IN  IF cfg.triggered \/ cfg.symbol \notin DOMAIN current_prices
            THEN check_stop_triggers(stops, current_prices, trailing,
                                     i + 1, triggered_stops)
            ELSE
                LET p   == current_prices[cfg.symbol]
                    upd == update_trailing_stop(stops, cfg.symbol, p, trailing)
                IN  IF StopTriggers(p, upd[i].stop_price)
                    THEN check_stop_triggers(
                            [upd EXCEPT ![i].triggered = TRUE,
                                        ![i].trigger_price = p],
                            current_prices, trailing, i + 1,
                            Append(triggered_stops, TriggeredEntry(upd[i], p)))
                    ELSE check_stop_triggers(upd, current_prices, trailing,
                                             i + 1, triggered_stops)

\* del position_stops[symbol]
remove_stop_loss(stops, symbol) ==
    LET i == StopIndex(stops, symbol)
    IN  IF i = 0 THEN stops
        ELSE [j \in 1..(Len(stops) - 1) |-> IF j < i THEN stops[j] ELSE stops[j + 1]]

\* ------------------------------------------------------------------------
\* PortfolioManager
\* ------------------------------------------------------------------------

\* PortfolioManager.__init__ max_position_percentage = 0.1
max_position_percentage ==
    10

\* PortfolioManager.__init__ max_total_invested = 0.8
max_total_invested ==
    80

\* PortfolioManager.__init__ min_trade_amount = 10.0
min_trade_amount ==
    10

Currencies ==
    {"BTC", "ETH"}

\* symbol.split("-")[0]
CurrencyOf(symbol) ==
    IF symbol = "BTC-USD" THEN "BTC" ELSE "ETH"

\* f"{currency}-USD"
SymbolOf(currency) ==
    IF currency = "BTC" THEN "BTC-USD"
    ELSE IF currency = "ETH" THEN "ETH-USD"
    ELSE "SOL-USD"

RECURSIVE SumOver(_, _)
SumOver(f, S) ==
    IF S = {} THEN 0
    ELSE LET x == CHOOSE y \in S : TRUE
         IN  f[x] + SumOver(f, S \ {x})

\* get_portfolio_value from the gateway's answers: accounts is
\* [error, usd, held] with held a function currency -> balance, ticker a
\* function from the symbols whose ticker carries a price
get_portfolio_value(accounts, ticker) ==
    IF accounts.error THEN [error |-> TRUE]
    ELSE
        LET priced == { c \in DOMAIN accounts.held :
                          accounts.held[c] > 0 /\ SymbolOf(c) \in DOMAIN ticker }
            positions ==
                [ c \in priced |->
                    [ balance   |-> accounts.held[c],
                      price     |-> ticker[SymbolOf(c)],
                      value_usd |-> accounts.held[c] * ticker[SymbolOf(c)] ] ]
            values == [ c \in priced |-> positions[c].value_usd ]
        IN  [ error           |-> FALSE,
              total_value_usd |-> accounts.usd + SumOver(values, priced),
              cash_balance    |-> accounts.usd,
              positions       |-> positions ]

\* a sizing that drops every size below the minimum trade amount
calculate_position_size_floor(portfolio_value, signal_strength) ==
    LET adjusted1e4 == portfolio_value * max_position_percentage
                           * signal_strength
    IN  IF adjusted1e4 < min_trade_amount * 10000 THEN 0
        ELSE adjusted1e4 \div 10000

\* calculate_position_size: base * strength, raised to the minimum trade
\* amount when the base reaches it, else 0
calculate_position_size(portfolio_value, signal_strength) ==
    LET base100     == portfolio_value * max_position_percentage
        adjusted1e4 == base100 * signal_strength
    IN  IF adjusted1e4 < min_trade_amount * 10000
        THEN IF base100 >= min_trade_amount * 100 THEN min_trade_amount ELSE 0
        ELSE adjusted1e4 \div 10000

\* can_open_position on the snapshot it fetches: "ok", a rejection, or
\* "raise" (the division by a total value of 0)
can_open_position(portfolio, symbol, position_size) ==
    IF portfolio.error THEN "portfolio_error"
    ELSE
        LET total    == portfolio.total_value_usd
            cash     == portfolio.cash_balance
            currency == CurrencyOf(symbol)
        IN  IF position_size > cash THEN "insufficient_cash"
            ELSE IF total = 0 THEN "raise"
            ELSE IF ((total - cash) + position_size) * 100
                        > max_total_invested * total
                 THEN "max_invested"
            ELSE IF /\ currency \in DOMAIN portfolio.positions
                    /\ (portfolio.positions[currency].value_usd + position_size) * 100
                           > max_position_percentage * total
                 THEN "max_position"
            ELSE "ok"

\* ------------------------------------------------------------------------
\* AutomatedDecisionEngine
\* ------------------------------------------------------------------------

\* AutomatedDecisionEngine.__init__ min_confidence = 0.75
min_confidence ==
    75

\* self.decision_cooldown = 300
decision_cooldown ==
    300

\* a plausible slip: the cooldown test looks at the last entry only
is_in_cooldown_last(recent, symbol, t) ==
    /\ Len(recent) > 0
    /\ recent[Len(recent)].symbol = symbol
    /\ recent[Len(recent)].timestamp > t - decision_cooldown

\* _is_in_cooldown
is_in_cooldown(recent, symbol, t) ==
    \E i \in 1..Len(recent) :
        /\ recent[i].symbol = symbol
        /\ recent[i].timestamp > t - decision_cooldown

\* _add_recent_decision: append, then drop what is older than two cooldowns
add_recent_decision(recent, symbol, t) ==
    LET cutoff == t - decision_cooldown * 2
        Keep(d) == d.timestamp > cutoff
    IN  SelectSeq(Append(recent, [symbol |-> symbol, timestamp |-> t]), Keep)

\* should_buy: "ok" or the reason of the refusal
should_buy(opportunity, recent, t) ==
    IF opportunity.signal \notin {"BUY", "STRONG_BUY"} THEN "not_buy_signal"
    ELSE IF opportunity.confidence < min_confidence THEN "low_confidence"
    ELSE IF is_in_cooldown(recent, opportunity.symbol, t) THEN "cooldown"
    ELSE "ok"

\* sorted(opportunities, key=potential_return, reverse=True): stable
RECURSIVE InsertByReturn(_, _)
InsertByReturn(sorted, o) ==
    IF sorted = << >> THEN << o >>
    ELSE IF Head(sorted).potential_return >= o.potential_return
         THEN << Head(sorted) >> \o InsertByReturn(Tail(sorted), o)
         ELSE << o >> \o sorted

RECURSIVE SortByReturn(_)
SortByReturn(opps) ==
    IF opps = << >> THEN << >>
    ELSE InsertByReturn(SortByReturn(SubSeq(opps, 1, Len(opps) - 1)),
                        opps[Len(opps)])

\* the BUY decision make_trading_decision builds
BuyDecision(opportunity, position_size, t) ==
    [ action            |-> "BUY",
      symbol            |-> opportunity.symbol,
      position_size_usd |-> position_size,
      confidence        |-> opportunity.confidence,
      timestamp         |-> t,
      timeframe         |-> opportunity.timeframe,
      signal            |-> opportunity.signal ]

\* the loop of make_trading_decision over the sorted opportunities from
\* entry i on; total_value is the total of the snapshot fetched first,
\* fetched[i] the snapshot can_open_position fetches for entry i.
\* should_sell never asks for a sale, so only BUY decisions are built.
RECURSIVE DecideFrom(_, _, _, _, _, _, _)
DecideFrom(sorted, i, total_value, fetched, t, recent, decisions) ==
    IF i > Len(sorted)
    THEN [raised |-> FALSE, decisions |-> decisions, recent |-> recent]
    ELSE
        LET opp == sorted[i]
        IN  IF should_buy(opp, recent, t) # "ok"
            THEN DecideFrom(sorted, i + 1, total_value, fetched, t,
                            recent, decisions)
            ELSE
                LET size == calculate_position_size(total_value, opp.confidence)
                    open == can_open_position(fetched[i], opp.symbol, size)
                IN  IF open = "raise"
                    THEN [raised |-> TRUE, decisions |-> << >>, recent |-> recent]
                    ELSE IF open = "ok" /\ size > 0
                    THEN DecideFrom(sorted, i + 1, total_value, fetched, t,
                                    add_recent_decision(recent, opp.symbol, t),
                                    Append(decisions, BuyDecision(opp, size, t)))
                    ELSE DecideFrom(sorted, i + 1, total_value, fetched, t,
                                    recent, decisions)

\* make_trading_decision(opportunities) at time t
make_trading_decision(opportunities, portfolio, fetched, t, recent) ==
    IF portfolio.error
    THEN [raised |-> FALSE, decisions |-> << >>, recent |-> recent]
    ELSE DecideFrom(SortByReturn(opportunities), 1, portfolio.total_value_usd,
                    fetched, t, recent, << >>)

\* ------------------------------------------------------------------------
\* RiskManager
\* ------------------------------------------------------------------------

\* RiskManager.__init__ max_position_risk = 0.1 (AutomatedTrader passes its
\* max_position_percentage, 0.1 as well)
max_position_risk ==
    10

\* RiskManager.__init__ max_daily_loss = 0.05
max_daily_loss ==
    5

\* a limit that is breached by a loss of exactly max_daily_loss
DailyLossBreached_atmost(daily, total_value) ==
    daily * 100 <= 0 - (max_daily_loss * total_value)

\* daily_pnl < -max_daily_loss * total_value
DailyLossBreached(daily, total_value) ==
    daily * 100 < 0 - (max_daily_loss * total_value)

\* assess_trade_risk: approved unless the daily loss limit is breached; a
\* size above max_position_risk of the total carries the capped size as
\* adjustment (<< >> when there is none); a confidence below 0.7 adds 0.3
\* to the risk score (in hundredths)
assess_trade_risk(decision, portfolio, daily) ==
    LET total == portfolio.total_value_usd
        score == IF decision.confidence < 70 THEN 30 ELSE 0
    IN  [ approved    |-> ~DailyLossBreached(daily, total),
          risk_score  |-> IF score > 100 THEN 100 ELSE score,
          adjustments |->
              IF /\ total > 0
                 /\ decision.position_size_usd * 100 > max_position_risk * total
              THEN << (total * max_position_risk) \div 100 >>
              ELSE None ]

\* monitor_portfolio_risk: the alerts of this call
monitor_portfolio_risk(portfolio, daily) ==
    LET total == portfolio.total_value_usd
        concentrated ==
            \E c \in DOMAIN portfolio.positions :
                portfolio.positions[c].value_usd * 100 > max_position_risk * total
    IN  (IF concentrated
         THEN << [type |-> "concentration_risk", severity |-> "high"] >>
         ELSE << >>)
        \o (IF DailyLossBreached(daily, total)
            THEN << [type |-> "daily_loss_limit", severity |-> "critical"] >>
            ELSE << >>)

\* datetime.now().date(), in days
DateOf(t) ==
    t \div 86400

\* ------------------------------------------------------------------------
\* The exchange gateway (api/clients.py)
\* ------------------------------------------------------------------------

\* the id of an order created at second t in demo mode:
\* "demo-order-" + datetime.now().strftime("%Y%m%d%H%M%S")
DemoOrderId(t) ==
    << "demo-order", t >>

\* the id the live exchange gives its n-th order
LiveOrderId(n) ==
    << "live-order", n >>

\* create_order: in demo mode the demo response, else the exchange's answer;
\* a response is [error, id], id << >> when the response carries none
GatewayCreateOrder(demo, t, live_response) ==
    IF demo THEN [error |-> FALSE, id |-> << DemoOrderId(t) >>]
    ELSE live_response

\* result.get("id", "demo-order")
default_order_id ==
    << "demo-order" >>

\* DEMO_MODE or order_id.startswith("demo-")
IsDemoOrder(demo, id) ==
    demo \/ id[1] = "demo-order"

\* ------------------------------------------------------------------------
\* OrderManager
\* ------------------------------------------------------------------------

\* index of the order with this id in a dict of orders, 0 when absent
OrderIndex(orders, id) ==
    IF \E i \in 1..Len(orders) : orders[i].id = id
    THEN CHOOSE i \in 1..Len(orders) : orders[i].id = id
    ELSE 0

\* a del that leaves the dict as it is
DelOrder_keep(orders, id) ==
    orders

\* del orders[id]
DelOrder(orders, id) ==
    LET i == OrderIndex(orders, id)
    IN  [j \in 1..(Len(orders) - 1) |-> IF j < i THEN orders[j] ELSE orders[j + 1]]

\* self.active_orders[order_id] = {...}: a present id is overwritten
PutOrder(orders, order) ==
    LET i == OrderIndex(orders, order.id)
    IN  IF i = 0 THEN Append(orders, order) ELSE [orders EXCEPT ![i] = order]

\* a create that does not test the response for an error
create_market_order_unchecked(active, symbol, side, amount, t, response) ==
    LET order_id == IF response.id = None THEN default_order_id
                    ELSE response.id[1]
    IN  [active |->
             PutOrder(active, [ id         |-> order_id,
                                symbol     |-> symbol,
                                side       |-> side,
                                amount     |-> amount,
                                status     |-> "pending",
                                created_at |-> t ]),
         success |-> TRUE,
         order_id |-> << order_id >>]

\* create_market_buy_order / create_market_sell_order on the gateway's
\* response: the active orders after it, and the result
create_market_order(active, symbol, side, amount, t, response) ==
    IF response.error
    THEN [active |-> active, success |-> FALSE, order_id |-> None]
    ELSE
        LET order_id == IF response.id = None THEN default_order_id
                        ELSE response.id[1]
        IN  [active |->
                 PutOrder(active, [ id         |-> order_id,
                                    symbol     |-> symbol,
                                    side       |-> side,
                                    amount     |-> amount,
                                    status     |-> "pending",
                                    created_at |-> t ]),
             success |-> TRUE,
             order_id |-> << order_id >>]

\* the simulated completion: after 5 seconds
demo_completion_delay ==
    5

\* check_order_status on om = [active, completed, failed]
check_order_status(om, id, t, demo) ==
    LET i == OrderIndex(om.active, id)
    IN  IF i = 0 THEN [om |-> om, status |-> "error"]
        ELSE IF /\ IsDemoOrder(demo, id)
                /\ t - om.active[i].created_at > demo_completion_delay
        THEN [om |-> [om EXCEPT
                        !.completed = Append(@, [om.active[i] EXCEPT
                                                    !.status = "done"]),
                        !.active = DelOrder(@, id)],
              status |-> "done"]
        ELSE [om |-> om, status |-> "pending"]

\* cancel_order on om = [active, completed, failed]
cancel_order(om, id, demo) ==
    LET i == OrderIndex(om.active, id)
    IN  IF i = 0 THEN [om |-> om, outcome |-> "error"]
        ELSE IF IsDemoOrder(demo, id)
        THEN [om |-> [om EXCEPT
                        !.failed = Append(@, [om.active[i] EXCEPT
                                                 !.status = "cancelled"]),
                        !.active = DelOrder(@, id)],
              outcome |-> "success"]
        ELSE [om |-> om, outcome |-> "success"]

\* ------------------------------------------------------------------------
\* TradeExecutor; ex = [active, completed, failed, history, stats]
\* ------------------------------------------------------------------------

\* the 5 minutes of the over-trading guard, in seconds
recent_trade_window ==
    300

\* the number of recent trades of a symbol that blocks a further one
max_recent_trades ==
    3

\* the smallest amount the executor accepts, $1
min_execution_amount ==
    1

\* _update_daily_stats
update_daily_stats(stats, stat_type, volume, t) ==
    LET s == IF stats.last_reset # DateOf(t)
             THEN [ trades_executed |-> 0, total_volume |-> 0,
                    successful_trades |-> 0, failed_trades |-> 0,
                    last_reset |-> DateOf(t) ]
             ELSE stats
    IN  IF stat_type = "executed"
        THEN [s EXCEPT !.trades_executed = @ + 1, !.total_volume = @ + volume]
        ELSE IF stat_type = "successful"
        THEN [s EXCEPT !.successful_trades = @ + 1]
        ELSE IF stat_type = "failed"
        THEN [s EXCEPT !.failed_trades = @ + 1]
        ELSE s

\* a check that lets a trade pass while the recent trades are at most 3
pre_execution_checks_atmost(history, symbol, amount, t) ==
    /\ amount >= min_execution_amount
    /\ Cardinality({ i \in 1..Len(history) :
                       /\ history[i].symbol = symbol
                       /\ t - history[i].timestamp < recent_trade_window })
           <= max_recent_trades

\* _pre_execution_checks
pre_execution_checks(history, symbol, amount, t) ==
    /\ amount >= min_execution_amount
    /\ Cardinality({ i \in 1..Len(history) :
                       /\ history[i].symbol = symbol
                       /\ t - history[i].timestamp < recent_trade_window })
           < max_recent_trades

\* execute_buy_decision / execute_sell_decision: usd is the amount checked
\* and recorded, amount what the order is for (the funds of a buy, the
\* balance of a sell); ticker is the gateway's ticker answer, response its
\* answer to create_order
execute_decision(ex, action, decision, usd, amount, t, ticker, response) ==
    IF ~pre_execution_checks(ex.history, decision.symbol, usd, t)
    THEN [ex |-> ex, success |-> FALSE, error |-> "pre_execution_checks",
          order_id |-> None, expected_price |-> 0]
    ELSE IF ticker.error
    THEN [ex |-> ex, success |-> FALSE, error |-> "no_price",
          order_id |-> None, expected_price |-> 0]
    ELSE
        LET o == create_market_order(ex.active, decision.symbol,
                                     IF action = "BUY" THEN "buy" ELSE "sell",
                                     amount, t, response)
        IN  IF o.success
            THEN [ex |-> [ex EXCEPT
                            !.active = o.active,
                            !.history = Append(@,
                                [ timestamp      |-> t,
                                  action         |-> action,
                                  symbol         |-> decision.symbol,
                                  usd_amount     |-> usd,
                                  expected_price |-> ticker.price,
                                  order_id       |-> o.order_id[1],
                                  status         |-> "pending" ]),
                            !.stats = update_daily_stats(@, "executed", usd, t)],
                  success |-> TRUE, error |-> "", order_id |-> o.order_id,
                  expected_price |-> ticker.price]
            ELSE [ex |-> [ex EXCEPT
                            !.stats = update_daily_stats(@, "failed", 0, t)],
                  success |-> FALSE, error |-> "order_refused",
                  order_id |-> None, expected_price |-> 0]

execute_buy_decision(ex, decision, t, ticker, response) ==
    execute_decision(ex, "BUY", decision, decision.position_size_usd,
                     decision.position_size_usd, t, ticker, response)

execute_sell_decision(ex, decision, t, ticker, response) ==
    execute_decision(ex, "SELL", decision, decision.position_size_usd,
                     decision.balance, t, ticker, response)

\* the first execution record of an order gets the new status
MarkRecord(history, id, status) ==
    IF \E i \in 1..Len(history) : history[i].order_id = id
    THEN LET i == CHOOSE k \in 1..Len(history) :
                     /\ history[k].order_id = id
                     /\ \A j \in 1..(k - 1) : history[j].order_id # id
         IN  [history EXCEPT ![i].status = status]
    ELSE history

\* monitor_active_orders: the loop over the ids listed at its start
RECURSIVE MonitorFrom(_, _, _, _, _)
MonitorFrom(ex, ids, i, t, demo) ==
    IF i > Len(ids) THEN ex
    ELSE
        LET r  == check_order_status(
                      [active |-> ex.active, completed |-> ex.completed,
                       failed |-> ex.failed], ids[i], t, demo)
            e1 == [ex EXCEPT !.active = r.om.active,
                             !.completed = r.om.completed,
                             !.failed = r.om.failed]
        IN  IF r.status = "done"
            THEN MonitorFrom([e1 EXCEPT
                                !.stats = update_daily_stats(@, "successful", 0, t),
                                !.history = MarkRecord(@, ids[i], "completed")],
                             ids, i + 1, t, demo)
            ELSE MonitorFrom(e1, ids, i + 1, t, demo)

\* list(self.order_manager.active_orders.keys())
OrderIds(active) ==
    [ i \in 1..Len(active) |-> active[i].id ]

monitor_active_orders(ex, t, demo) ==
    MonitorFrom(ex, OrderIds(ex.active), 1, t, demo)

\* ------------------------------------------------------------------------
\* The state after construction
\* ------------------------------------------------------------------------

\* the locals of _trading_loop between two cycles.  calls and was_enabled
\* are records of the cycle's history: how many decisions the cycle has
\* handed to the executor, and whether trading_enabled was true at some
\* moment of the cycle; portfolio_error is `"error" in portfolio` of the
\* cycle's first portfolio fetch.
NoCycle ==
    [ cycle_start        |-> 0,
      opportunities      |-> << >>,
      total_value_usd    |-> 0,
      alerts             |-> << >>,
      approved_decisions |-> << >>,
      i                  |-> 0,
      execution_results  |-> << >>,
      current_prices     |-> << >>,
      triggered_stops    |-> << >>,
      j                  |-> 0,
      calls              |-> 0,
      was_enabled        |-> FALSE,
      portfolio_error    |-> FALSE ]

\* no call of emergency_stop under way
NoEmergencyStop ==
    [ phase |-> "none", ids |-> << >>, k |-> 0, attempts |-> << >>,
      was_running |-> FALSE ]

\* no thread but those of the last start_trading
NoOldThreads ==
    [ trading |-> "none", monitoring |-> "none", loaded |-> << >> ]

\* no call of analyze_all_coins is under way
NoPool ==
    [ phase |-> "idle", timeframe |-> 0, futures |-> << >>, i |-> 0,
      results |-> << >>, timed_out |-> << >>, all_results |-> << >> ]

\* CryptoMonitor.__init__: not running, nothing analysed, no thread
NoMonitoring ==
    [ is_running |-> FALSE, pc |-> "idle", last_analysis |-> << >> ]

\* OrderManager.__init__ and TradeExecutor.__init__
InitExecutorVars ==
    /\ active_orders = << >>
    /\ completed_orders = << >>
    /\ failed_orders = << >>
    /\ execution_history = << >>
    /\ daily_stats = [ trades_executed |-> 0, total_volume |-> 0,
                       successful_trades |-> 0, failed_trades |-> 0,
                       last_reset |-> 0 ]

\* RiskManager.__init__, CryptoMonitor.__init__ and AutomatedTrader.__init__
InitTraderVars ==
    /\ daily_pnl = 0
    /\ last_reset = DateOf(0)
    /\ risk_alerts = << >>
    /\ is_running = FALSE
    /\ trading_enabled = TRUE
    /\ trading_stats = [ cycles_completed |-> 0, total_trades |-> 0,
                         successful_trades |-> 0, failed_trades |-> 0,
                         total_volume |-> 0, start_time |-> None ]
    /\ last_trading_cycle = None
    /\ pc = "idle"
    /\ cycle = NoCycle
    /\ estop = NoEmergencyStop
    /\ monitor = NoMonitoring
    /\ old_threads = NoOldThreads
    /\ pool = NoPool

\* ------------------------------------------------------------------------
\* SpecStops: the StopLossManager driven call by call
\* ------------------------------------------------------------------------

\* the price maps check_stop_triggers is called with
PriceMaps ==
    UNION { [D -> Prices] : D \in SUBSET Symbols }

\* AutomatedDecisionEngine.__init__, and the clock at its start
InitDecisionVars ==
    /\ recent_decisions = << >>
    /\ decision_log = << >>
    /\ now = 0

InitStops ==
    /\ position_stops = << >>
    /\ trailing_stop \in BOOLEAN
    /\ InitDecisionVars
    /\ InitExecutorVars
    /\ InitTraderVars
    /\ demo_mode = TRUE
    /\ orders_accepted = 0
    /\ call = [op |-> "init"]
    /\ ret = [kind |-> "none"]

SL_SetStopLoss ==
    \E s \in Symbols, e \in EntryPrices, pct \in StopPctArgs :
        /\ position_stops' = set_stop_loss(position_stops, s, e, pct)
        /\ call' = [op |-> "set_stop_loss", symbol |-> s, entry_price |-> e]
        /\ ret' = [kind |-> "config"]
        /\ UNCHANGED << trailing_stop, NotStopVars >>

SL_UpdateTrailingStop ==
    \E s \in Symbols, p \in Prices :
        /\ position_stops' =
               update_trailing_stop(position_stops, s, p, trailing_stop)
        /\ call' = [op |-> "update_trailing_stop", symbol |-> s, price |-> p]
        /\ ret' = IF HasStop(position_stops, s)
                  THEN [kind |-> "config"] ELSE [kind |-> "error"]
        /\ UNCHANGED << trailing_stop, NotStopVars >>

SL_CheckStopTriggers ==
    \E prices \in PriceMaps :
        LET r == check_stop_triggers(position_stops, prices, trailing_stop,
                                     1, << >>)
        IN  /\ position_stops' = r.stops
            /\ call' = [op |-> "check_stop_triggers", prices |-> prices]
            /\ ret' = [kind |-> "triggered", triggered_stops |-> r.triggered_stops]
            /\ UNCHANGED << trailing_stop, NotStopVars >>

SL_RemoveStopLoss ==
    \E s \in Symbols :
        /\ position_stops' = remove_stop_loss(position_stops, s)
        /\ call' = [op |-> "remove_stop_loss", symbol |-> s]
        /\ ret' = [kind |-> "bool", value |-> HasStop(position_stops, s)]
        /\ UNCHANGED << trailing_stop, NotStopVars >>

NextStops ==
    \/ SL_SetStopLoss
    \/ SL_UpdateTrailingStop
    \/ SL_CheckStopTriggers
    \/ SL_RemoveStopLoss

SpecStops ==
    InitStops /\ [][NextStops]_vars

\* the symbols of a list of records with a symbol field
SymbolsOf(list) ==
    { list[i].symbol : i \in 1..Len(list) }

\* C1: over update_trailing_stop calls with arbitrary prices the stop_price
\* of an untriggered stop never decreases: a call whose price exceeds
\* highest_price raises highest_price and adopts the recomputed stop only if
\* it is higher than the current one; every other call changes nothing.
C1_StopNeverLoosens ==
    [][ call'.op = "update_trailing_stop" =>
          /\ Len(position_stops') = Len(position_stops)
          /\ \A i \in 1..Len(position_stops) :
                LET cfg  == position_stops[i]
                    cfg2 == position_stops'[i]
                    p    == call'.price
                    cand == StopPriceFor(p, cfg.stop_percentage)
                IN  /\ ~cfg.triggered => cfg2.stop_price >= cfg.stop_price
                    /\ IF trailing_stop /\ cfg.symbol = call'.symbol
                          /\ p > cfg.highest_price
                       THEN /\ cfg2.highest_price = p
                            /\ cfg2.stop_price =
                                 IF cand > cfg.stop_price THEN cand
                                 ELSE cfg.stop_price
                       ELSE cfg2 = cfg ]_vars

\* C1 witness: an update_trailing_stop call has raised an untriggered stop
\* above the stop its entry price gave it
C1_Witness ==
    /\ call.op = "update_trailing_stop"
    /\ HasStop(position_stops, call.symbol)
    /\ LET cfg == StopOf(position_stops, call.symbol)
       IN  /\ ~cfg.triggered
           /\ cfg.highest_price = call.price
           /\ cfg.stop_price > StopPriceFor(cfg.entry_price, cfg.stop_percentage)

\* C8: check_stop_triggers(prices) applies the trailing update to every
\* untriggered stop that has a price, returns exactly the stops whose price
\* is at or below the (possibly raised) stop_price, marks each triggered
\* with trigger_price = the price, never returns an already triggered stop,
\* and leaves a stop without a price unchanged.
C8_CheckStopTriggers ==
    [][ call'.op = "check_stop_triggers" =>
          LET prices   == call'.prices
              returned == ret'.triggered_stops
          IN  /\ Len(position_stops') = Len(position_stops)
              /\ Cardinality(SymbolsOf(returned)) = Len(returned)
              /\ \A i \in 1..Len(position_stops) :
                    LET cfg  == position_stops[i]
                        cfg2 == position_stops'[i]
                    IN  IF cfg.triggered \/ cfg.symbol \notin DOMAIN prices
                        THEN /\ cfg2 = cfg
                             /\ cfg.symbol \notin SymbolsOf(returned)
                        ELSE
                            LET p      == prices[cfg.symbol]
                                raised == trailing_stop /\ p > cfg.highest_price
                            IN  /\ cfg2.symbol = cfg.symbol
                                /\ cfg2.entry_price = cfg.entry_price
                                /\ cfg2.highest_price =
                                     IF raised THEN p ELSE cfg.highest_price
                                /\ cfg2.stop_price =
                                     IF raised
                                     THEN Max(cfg.stop_price,
                                              StopPriceFor(p, cfg.stop_percentage))
                                     ELSE cfg.stop_price
                                /\ cfg2.triggered = (p <= cfg2.stop_price)
                                /\ cfg2.triggered => cfg2.trigger_price = p
                                /\ cfg2.triggered <=>
                                     \E k \in 1..Len(returned) :
                                        /\ returned[k].symbol = cfg.symbol
                                        /\ returned[k].trigger_price = p
                                        /\ returned[k].stop_price = cfg2.stop_price
          ]_vars

\* C8 witness (Scenario C): a stop entered at 50000 that trailed to 49500
\* at 55000 is returned as triggered at 49000
C8_Witness ==
    /\ call.op = "check_stop_triggers"
    /\ \E k \in 1..Len(ret.triggered_stops) :
          LET t == ret.triggered_stops[k]
          IN  /\ t.entry_price = 50000
              /\ t.stop_price = 49500
              /\ t.trigger_price = 49000
              /\ StopOf(position_stops, t.symbol).triggered
              /\ StopOf(position_stops, t.symbol).highest_price = 55000

\* ------------------------------------------------------------------------
\* SpecDecide: the decision engine called cycle after cycle
\* ------------------------------------------------------------------------

\* the opportunity a monitor result gives (potential_return in percents)
Opp(symbol, signal, confidence, timeframe) ==
    [ symbol           |-> symbol,
      signal           |-> signal,
      confidence       |-> confidence,
      timeframe        |-> timeframe,
      potential_return |->
          confidence * (IF signal = "STRONG_BUY" THEN 2 ELSE 1) ]

\* the opportunity lists the harness proposes: one symbol on two
\* timeframes, a confidence below the minimum, a signal that is no buy
\* signal, two symbols with equal and with unsorted potential returns
OppLists ==
    { << >>,
      << Opp("BTC-USD", "STRONG_BUY", 90, "1h") >>,
      << Opp("BTC-USD", "STRONG_BUY", 90, "1h"), Opp("BTC-USD", "BUY", 80, "4h") >>,
      << Opp("ETH-USD", "BUY", 80, "1h") >>,
      << Opp("ETH-USD", "BUY", 72, "4h"), Opp("ETH-USD", "NEUTRAL", 90, "1d") >>,
      << Opp("BTC-USD", "BUY", 80, "4h"), Opp("ETH-USD", "BUY", 80, "1h") >>,
      << Opp("ETH-USD", "BUY", 80, "1h"), Opp("BTC-USD", "STRONG_BUY", 90, "1h") >> }

\* the account answers of the harness: an error, cash only, and cash with
\* one coin that is 5% of the portfolio
HarnessAccounts ==
    { [error |-> TRUE, usd |-> 0, held |-> << >>],
      [error |-> FALSE, usd |-> 10000, held |-> << >>],
      [error |-> FALSE, usd |-> 950000, held |-> [c \in {"BTC"} |-> 1]] }

HarnessTicker ==
    [s \in Symbols |-> 50000]

HarnessPortfolios ==
    { get_portfolio_value(a, HarnessTicker) : a \in HarnessAccounts }

\* the seconds that pass between two calls
AdvanceSteps ==
    {100, 200}

\* the clock of the harness stops here
MaxTime ==
    400

\* what the log keeps of the decisions of one call
LogOf(decisions) ==
    [ i \in 1..Len(decisions) |->
        [ action     |-> decisions[i].action,
          symbol     |-> decisions[i].symbol,
          signal     |-> decisions[i].signal,
          confidence |-> decisions[i].confidence,
          timestamp  |-> decisions[i].timestamp ] ]

InitDecide ==
    /\ position_stops = << >>
    /\ trailing_stop = TRUE
    /\ InitDecisionVars
    /\ InitExecutorVars
    /\ InitTraderVars
    /\ demo_mode = TRUE
    /\ orders_accepted = 0
    /\ call = [op |-> "init"]
    /\ ret = [kind |-> "none"]

DE_MakeTradingDecision ==
    \E opps \in OppLists, portfolio \in HarnessPortfolios :
        \E fetched \in [1..Len(opps) -> HarnessPortfolios] :
            LET r == make_trading_decision(opps, portfolio, fetched, now,
                                           recent_decisions)
            IN  /\ recent_decisions' = r.recent
                /\ decision_log' = decision_log \o LogOf(r.decisions)
                /\ call' = [op |-> "make_trading_decision",
                            opportunities |-> opps]
                /\ ret' = [kind |-> "decisions", raised |-> r.raised,
                           count |-> Len(r.decisions)]
                /\ UNCHANGED << now, NotDecisionVars >>

DE_Advance ==
    \E d \in AdvanceSteps :
        /\ now + d <= MaxTime
        /\ now' = now + d
        /\ call' = [op |-> "advance"]
        /\ ret' = [kind |-> "none"]
        /\ UNCHANGED << recent_decisions, decision_log, NotDecisionVars >>

NextDecide ==
    \/ DE_MakeTradingDecision
    \/ DE_Advance

SpecDecide ==
    InitDecide /\ [][NextDecide]_vars

\* C2: every BUY decision make_trading_decision returns has signal BUY or
\* STRONG_BUY, confidence >= min_confidence, and a symbol with no decision
\* in the preceding cooldown window: two decisions for one symbol, of the
\* same call or of different cycles, are at least decision_cooldown apart.
C2_DecisionsRespectCooldown ==
    \A i \in 1..Len(decision_log) :
        LET d == decision_log[i]
        IN  /\ d.action = "BUY"
            /\ d.signal \in {"BUY", "STRONG_BUY"}
            /\ d.confidence >= min_confidence
            /\ \A j \in 1..(i - 1) :
                  decision_log[j].symbol = d.symbol =>
                      d.timestamp - decision_log[j].timestamp >= decision_cooldown

\* C2 witness (Scenario D): a call proposes a qualifying BUY for a symbol
\* decided upon 200 s earlier and returns no decision for it
C2_Witness ==
    /\ call.op = "make_trading_decision"
    /\ \E k \in 1..Len(call.opportunities) :
          LET o == call.opportunities[k]
          IN  /\ o.signal \in {"BUY", "STRONG_BUY"}
              /\ o.confidence >= min_confidence
              /\ \E j \in 1..Len(decision_log) :
                    /\ decision_log[j].symbol = o.symbol
                    /\ now - decision_log[j].timestamp = 200
              /\ \A j \in 1..Len(decision_log) :
                    decision_log[j].symbol = o.symbol =>
                        decision_log[j].timestamp # now


\* ------------------------------------------------------------------------
\* Spec: the AutomatedTrader.  One thread runs _trading_loop (start_trading
\* is followed from the moment the previous thread has ended), a second
\* thread makes the control calls, one after the other, and a caller of
\* the RiskManager reports profit and loss.  The gateway is the live
\* exchange: the fixed accounts of the demo gateway are 80% invested, so
\* can_open_position refuses every purchase there, and its tickers stay
\* within 5% of their base, above every stop.
\* ------------------------------------------------------------------------

\* the update_interval the trader is constructed with, in seconds
update_interval ==
    60

\* time.sleep(60) after an exception in the loop
exception_sleep ==
    60

\* time.sleep(1) between two decisions of execute_decisions
execution_delay ==
    1

\* no cycle starts after this time
MaxLoopTime ==
    60

\* what monitor.get_latest_opportunities can return: nothing, one strong
\* signal, two signals
LoopOppLists ==
    { << >>,
      << Opp("BTC-USD", "STRONG_BUY", 90, "1h") >>,
      << Opp("BTC-USD", "BUY", 80, "1h"), Opp("ETH-USD", "STRONG_BUY", 90, "1h") >> }

\* the account answers of the exchange while a cycle decides: an error, no
\* funds, cash only
LoopAccounts ==
    { [error |-> TRUE, usd |-> 0, held |-> << >>],
      [error |-> FALSE, usd |-> 0, held |-> << >>],
      [error |-> FALSE, usd |-> 10000, held |-> << >>] }

LoopPortfolios ==
    { get_portfolio_value(a, HarnessTicker) : a \in LoopAccounts }

\* the account answers when a triggered stop is to be sold: no funds, cash
\* and the coin
SellAccounts ==
    { [error |-> FALSE, usd |-> 0, held |-> << >>],
      [error |-> FALSE, usd |-> 10000, held |-> [c \in {"BTC"} |-> 1]] }

SellPortfolios ==
    { get_portfolio_value(a, HarnessTicker) : a \in SellAccounts }

\* a ticker answer: an error, or a price out of the given ones
TickerAnswers(prices) ==
    { [error |-> TRUE, price |-> 0] } \cup
    { [error |-> FALSE, price |-> p] : p \in prices }

\* get_product_ticker: the demo gateway always names a price
GatewayTickers(demo, prices) ==
    IF demo THEN { a \in TickerAnswers(prices) : ~a.error }
    ELSE TickerAnswers(prices)

\* the price the executor sees when it places an order
ExecutionPrices ==
    {50000}

\* the prices the loop sees when it registers a stop-loss
RegistrationPrices ==
    {50000, 55000}

\* the prices the stop check sees
CheckPrices ==
    {45000, 55000}

\* the exchange's answers to create_order: an error, an order under a fresh
\* id
OrderAnswers ==
    { [error |-> TRUE, id |-> None],
      [error |-> FALSE, id |-> << LiveOrderId(orders_accepted + 1) >>] }

\* the TradeExecutor's state as one record, and back
Ex ==
    [ active    |-> active_orders,
      completed |-> completed_orders,
      failed    |-> failed_orders,
      history   |-> execution_history,
      stats     |-> daily_stats ]

SetEx(ex) ==
    /\ active_orders' = ex.active
    /\ completed_orders' = ex.completed
    /\ failed_orders' = ex.failed
    /\ execution_history' = ex.history
    /\ daily_stats' = ex.stats

\* a plausible slip: only alerts of severity "error" stop the cycle
HasCriticalAlert_error(alerts) ==
    \E a \in 1..Len(alerts) : alerts[a].severity = "error"

\* critical_alerts of the loop is not empty
HasCriticalAlert(alerts) ==
    \E a \in 1..Len(alerts) : alerts[a].severity = "critical"

\* the risk assessment of each decision: the approved ones, adjusted
RECURSIVE ApproveFrom(_, _, _, _, _)
ApproveFrom(decisions, d, portfolio, daily, approved) ==
    IF d > Len(decisions) THEN approved
    ELSE
        LET a == assess_trade_risk(decisions[d], portfolio, daily)
        IN  IF a.approved
            THEN ApproveFrom(decisions, d + 1, portfolio, daily,
                     Append(approved,
                            IF a.adjustments = None THEN decisions[d]
                            ELSE [decisions[d] EXCEPT
                                     !.position_size_usd = a.adjustments[1]]))
            ELSE ApproveFrom(decisions, d + 1, portfolio, daily, approved)

\* what execute_decisions returns for one decision
ResultOf(r, decision, index) ==
    [ success        |-> r.success,
      order_id       |-> r.order_id,
      expected_price |-> r.expected_price,
      decision_index |-> index,
      symbol         |-> decision.symbol,
      action         |-> decision.action ]

\* a successful BUY gets a stop-loss
NeedsStop(result) ==
    result.success /\ result.action = "BUY"

\* the stop-losses of the results: tickers[r] is the ticker the loop fetches
\* for result r
RECURSIVE RegisterStops(_, _, _, _)
RegisterStops(stops, results, r, tickers) ==
    IF r > Len(results) THEN stops
    ELSE IF NeedsStop(results[r]) /\ ~tickers[r].error
    THEN RegisterStops(set_stop_loss(stops, results[r].symbol,
                                     tickers[r].price, None),
                       results, r + 1, tickers)
    ELSE RegisterStops(stops, results, r + 1, tickers)

\* the number of results with this outcome
CountResults(results, success) ==
    Cardinality({ r \in 1..Len(results) : results[r].success = success })

\* total_volume of the loop over the results: the position_size_usd of the
\* results that have the key
RECURSIVE ResultVolume(_, _)
ResultVolume(results, r) ==
    IF r > Len(results) THEN 0
    ELSE (IF "position_size_usd" \in DOMAIN results[r]
          THEN results[r].position_size_usd ELSE 0)
         + ResultVolume(results, r + 1)


\* ---- the thread of _trading_loop

\* a head of the loop that goes on to the decisions when the portfolio
\* fetch has returned an error
TL_CycleStart_on ==
    /\ pc = "loop"
    /\ IF ~is_running
       THEN /\ pc' = "idle"
            /\ UNCHANGED cycle
       ELSE /\ now <= MaxLoopTime
            /\ \E opps \in LoopOppLists \ { << >> } :
                 cycle' = [NoCycle EXCEPT !.cycle_start = now,
                                          !.opportunities = opps,
                                          !.was_enabled = trading_enabled,
                                          !.portfolio_error = TRUE]
            /\ pc' = "decide"
    /\ UNCHANGED << position_stops, trailing_stop, recent_decisions,
                    decision_log, ExecutorVars, daily_pnl, last_reset, risk_alerts,
                    is_running, trading_enabled, trading_stats,
                    last_trading_cycle, estop, demo_mode, old_threads, pool, monitor,
                    orders_accepted, now, call, ret >>

\* while self.is_running: the thread ends, or a cycle begins with the
\* opportunities, the portfolio snapshot and the risk monitoring
TL_CycleStart ==
    /\ pc = "loop"
    /\ IF ~is_running
       THEN /\ pc' = "idle"
            /\ UNCHANGED << cycle, risk_alerts >>
       ELSE /\ now <= MaxLoopTime
            /\ \E opps \in LoopOppLists, portfolio \in LoopPortfolios :
                 LET fetched == opps # << >>
                     usable  == fetched /\ ~portfolio.error
                     alerts  == IF usable
                                THEN monitor_portfolio_risk(portfolio, daily_pnl)
                                ELSE << >>
                 IN  /\ risk_alerts' = risk_alerts \o alerts
                     /\ cycle' =
                          [NoCycle EXCEPT
                             !.cycle_start = now,
                             !.opportunities = opps,
                             !.total_value_usd =
                                 IF usable THEN portfolio.total_value_usd ELSE 0,
                             !.alerts = alerts,
                             !.was_enabled = trading_enabled,
                             !.portfolio_error = fetched /\ portfolio.error]
                     /\ pc' = IF usable /\ ~HasCriticalAlert(alerts)
                              THEN "decide" ELSE "sleep"
    /\ UNCHANGED << position_stops, trailing_stop, recent_decisions,
                    decision_log, ExecutorVars, daily_pnl, last_reset, is_running,
                    trading_enabled, trading_stats, last_trading_cycle, estop,
                    demo_mode, old_threads, pool, monitor, orders_accepted, now, call, ret >>

\* make_trading_decision, the risk assessment of each decision, and the
\* test of trading_enabled that decides whether the approved ones are executed
TL_Decide ==
    /\ pc = "decide"
    /\ \E portfolio \in LoopPortfolios,
          fetched \in [1..Len(cycle.opportunities) -> LoopPortfolios] :
         LET r == make_trading_decision(cycle.opportunities, portfolio,
                                        fetched, now, recent_decisions)
             approved ==
                 ApproveFrom(r.decisions, 1,
                             [total_value_usd |-> cycle.total_value_usd],
                             daily_pnl, << >>)
         IN  /\ recent_decisions' = r.recent
             /\ decision_log' = decision_log \o LogOf(r.decisions)
             /\ IF r.raised
                THEN /\ pc' = "except"
                     /\ cycle' = cycle
                ELSE IF approved = << >>
                THEN /\ pc' = "sleep"
                     /\ cycle' = cycle
                ELSE /\ pc' = IF trading_enabled THEN "execute" ELSE "monitor"
                     /\ cycle' = [cycle EXCEPT !.approved_decisions = approved,
                                               !.i = 1]
    /\ UNCHANGED << position_stops, trailing_stop, ExecutorVars, daily_pnl, last_reset,
                    risk_alerts, is_running, trading_enabled, trading_stats,
                    last_trading_cycle, estop, demo_mode, old_threads, pool, monitor, orders_accepted,
                    now, call, ret >>

\* execute_decisions, one decision at a step
TL_Execute ==
    /\ pc = "execute"
    /\ \E ticker \in GatewayTickers(demo_mode, ExecutionPrices),
          response \in OrderAnswers :
         LET d    == cycle.approved_decisions[cycle.i]
             resp == GatewayCreateOrder(demo_mode, now, response)
             r    == IF d.action = "BUY"
                     THEN execute_buy_decision(Ex, d, now, ticker, resp)
                     ELSE execute_sell_decision(Ex, d, now, ticker, resp)
             last == cycle.i = Len(cycle.approved_decisions)
         IN  /\ SetEx(r.ex)
             /\ orders_accepted' = orders_accepted + (IF r.success THEN 1 ELSE 0)
             /\ cycle' = [cycle EXCEPT
                            !.execution_results =
                                Append(@, ResultOf(r, d, cycle.i - 1)),
                            !.i = @ + 1,
                            !.calls = @ + 1]
             /\ now' = IF last THEN now ELSE now + execution_delay
             /\ pc' = IF last THEN "results" ELSE "execute"
    /\ UNCHANGED << position_stops, trailing_stop, recent_decisions,
                    decision_log, daily_pnl, last_reset, risk_alerts, is_running,
                    trading_enabled, trading_stats, last_trading_cycle, estop,
                    demo_mode, old_threads, pool, monitor, call, ret >>

\* the loop over the execution results: stop-losses and trading_stats
TL_Results ==
    /\ pc = "results"
    /\ \E tickers \in [1..Len(cycle.execution_results) ->
                          GatewayTickers(demo_mode, RegistrationPrices)] :
         position_stops' =
             RegisterStops(position_stops, cycle.execution_results, 1, tickers)
    /\ trading_stats' =
           [trading_stats EXCEPT
              !.cycles_completed = @ + 1,
              !.total_trades = @ + Len(cycle.execution_results),
              !.successful_trades =
                  @ + CountResults(cycle.execution_results, TRUE),
              !.failed_trades =
                  @ + CountResults(cycle.execution_results, FALSE),
              !.total_volume =
                  @ + ResultVolume(cycle.execution_results, 1)]
    /\ pc' = "monitor"
    /\ UNCHANGED << trailing_stop, recent_decisions, decision_log,
                    ExecutorVars, daily_pnl, last_reset, risk_alerts, is_running,
                    trading_enabled, last_trading_cycle, cycle, estop,
                    demo_mode, old_threads, pool, monitor, orders_accepted, now, call, ret >>

\* the price maps the loop can collect for the symbols of the opportunities
CheckPriceMaps(symbols) ==
    UNION { [D -> CheckPrices] : D \in SUBSET symbols }

\* a plausible slip: triggered stops are sold whatever trading_enabled says
SellsTriggered_always(triggered_stops, enabled) ==
    triggered_stops # << >>

\* if triggered_stops: ... if self.trading_enabled:
SellsTriggered(triggered_stops, enabled) ==
    triggered_stops # << >> /\ enabled

\* monitor_active_orders, the current prices, check_stop_triggers and the
\* test of trading_enabled that decides whether the triggered stops are sold
TL_Monitor ==
    /\ pc = "monitor"
    /\ \E current_prices \in CheckPriceMaps(SymbolsOf(cycle.opportunities)) :
         LET c     == check_stop_triggers(position_stops, current_prices,
                                          trailing_stop, 1, << >>)
             sells == SellsTriggered(c.triggered_stops, trading_enabled)
         IN  /\ SetEx(monitor_active_orders(Ex, now, demo_mode))
             /\ position_stops' = c.stops
             /\ cycle' = [cycle EXCEPT
                            !.current_prices = current_prices,
                            !.triggered_stops = c.triggered_stops,
                            !.j = IF sells THEN 1 ELSE 0]
             /\ pc' = IF sells THEN "stop_sell" ELSE "sleep"
             /\ last_trading_cycle' =
                    IF sells THEN last_trading_cycle ELSE << now >>
    /\ UNCHANGED << trailing_stop, recent_decisions, decision_log, daily_pnl, last_reset,
                    risk_alerts, is_running, trading_enabled, trading_stats,
                    estop, demo_mode, old_threads, pool, monitor, orders_accepted, now, call, ret >>

\* a sell decision that takes the value of the position for its balance
StopDecision_value(stop, position) ==
    [ action            |-> "SELL",
      symbol            |-> stop.symbol,
      trigger_price     |-> stop.trigger_price,
      balance           |-> position.value_usd,
      position_size_usd |-> position.value_usd ]

\* the sell decision the loop builds for a triggered stop
StopDecision(stop, position) ==
    [ action            |-> "SELL",
      symbol            |-> stop.symbol,
      trigger_price     |-> stop.trigger_price,
      balance           |-> position.balance,
      position_size_usd |-> position.value_usd ]

\* the sell of one triggered stop
TL_StopSell ==
    /\ pc = "stop_sell"
    /\ \E portfolio \in SellPortfolios,
          ticker \in GatewayTickers(demo_mode, ExecutionPrices),
          response \in OrderAnswers :
         LET stop     == cycle.triggered_stops[cycle.j]
             currency == CurrencyOf(stop.symbol)
             held     == /\ ~portfolio.error
                         /\ currency \in DOMAIN portfolio.positions
             r        == execute_sell_decision(
                             Ex, StopDecision(stop, portfolio.positions[currency]),
                             now, ticker,
                             GatewayCreateOrder(demo_mode, now, response))
         IN  IF held
             THEN /\ SetEx(r.ex)
                  /\ orders_accepted' =
                         orders_accepted + (IF r.success THEN 1 ELSE 0)
                  /\ position_stops' =
                         IF r.success
                         THEN remove_stop_loss(position_stops, stop.symbol)
                         ELSE position_stops
                  /\ cycle' = [cycle EXCEPT !.j = @ + 1, !.calls = @ + 1]
             ELSE /\ cycle' = [cycle EXCEPT !.j = @ + 1]
                  /\ UNCHANGED << ExecutorVars, orders_accepted, position_stops >>
    /\ LET last == cycle.j = Len(cycle.triggered_stops)
       IN  /\ pc' = IF last THEN "sleep" ELSE "stop_sell"
           /\ last_trading_cycle' =
                  IF last THEN << now >> ELSE last_trading_cycle
    /\ UNCHANGED << trailing_stop, recent_decisions, decision_log, daily_pnl, last_reset,
                    risk_alerts, is_running, trading_enabled, trading_stats,
                    estop, demo_mode, old_threads, pool, monitor, now, call, ret >>

\* _sleep_until_next_cycle
TL_Sleep ==
    /\ pc = "sleep"
    /\ now' = Max(now, cycle.cycle_start + update_interval)
    /\ cycle' = NoCycle
    /\ pc' = "loop"
    /\ UNCHANGED << position_stops, trailing_stop, recent_decisions,
                    decision_log, ExecutorVars, daily_pnl, last_reset, risk_alerts,
                    is_running, trading_enabled, trading_stats,
                    last_trading_cycle, estop, demo_mode, old_threads, pool, monitor, orders_accepted,
                    call, ret >>

\* a loop without the except clause: the exception ends the thread
TL_Except_exit ==
    /\ pc = "except"
    /\ pc' = "idle"
    /\ cycle' = NoCycle
    /\ UNCHANGED << position_stops, trailing_stop, recent_decisions,
                    decision_log, ExecutorVars, daily_pnl, last_reset, risk_alerts,
                    is_running, trading_enabled, trading_stats,
                    last_trading_cycle, estop, demo_mode, old_threads, pool, monitor, orders_accepted,
                    now, call, ret >>

\* except Exception: time.sleep(60)
TL_Except ==
    /\ pc = "except"
    /\ now' = now + exception_sleep
    /\ cycle' = NoCycle
    /\ pc' = "loop"
    /\ UNCHANGED << position_stops, trailing_stop, recent_decisions,
                    decision_log, ExecutorVars, daily_pnl, last_reset, risk_alerts,
                    is_running, trading_enabled, trading_stats,
                    last_trading_cycle, estop, demo_mode, old_threads, pool, monitor, orders_accepted,
                    call, ret >>

\* ---- the control calls

\* no emergency_stop is under way on the controlling thread
ControlFree ==
    estop.phase # "cancel"

\* the cycle's record of trading_enabled, when trading_enabled becomes e
NoteEnabled(e) ==
    IF e /\ pc \in {"decide", "execute", "results", "monitor", "stop_sell"}
    THEN [cycle EXCEPT !.was_enabled = TRUE]
    ELSE cycle

\* monitor.start_monitoring: the monitoring thread starts at the head of
\* monitoring_loop; the model follows the thread started last
start_monitoring(m) ==
    IF m.is_running THEN m
    ELSE [m EXCEPT !.is_running = TRUE, !.pc = "loop"]

\* a stop that leaves the monitor's flag as it is
stop_monitoring_noflag(m) ==
    m

\* monitor.stop_monitoring: the flag, and a join of at most 10 seconds that
\* leaves the thread where it is
stop_monitoring(m) ==
    IF ~m.is_running THEN m
    ELSE [m EXCEPT !.is_running = FALSE]

\* start_trading
StartTrading ==
    /\ ControlFree
    /\ ~is_running
    /\ pc = "idle"
    /\ is_running' = TRUE
    /\ trading_stats' = [trading_stats EXCEPT !.start_time = << now >>]
    /\ pc' = "loop"
    /\ estop' = NoEmergencyStop
    /\ monitor' = start_monitoring(monitor)
    /\ UNCHANGED << position_stops, trailing_stop, recent_decisions,
                    decision_log, ExecutorVars, daily_pnl, last_reset, risk_alerts,
                    trading_enabled, last_trading_cycle, cycle, demo_mode, old_threads, pool,
                    orders_accepted, now, call, ret >>

\* stop_trading
StopTrading ==
    /\ ControlFree
    /\ is_running
    /\ is_running' = FALSE
    /\ estop' = NoEmergencyStop
    /\ monitor' = stop_monitoring(monitor)
    /\ UNCHANGED << position_stops, trailing_stop, recent_decisions,
                    decision_log, ExecutorVars, daily_pnl, last_reset, risk_alerts,
                    trading_enabled, trading_stats, last_trading_cycle, pc,
                    cycle, demo_mode, old_threads, pool, orders_accepted, now, call, ret >>

\* an enable_trading that also sets is_running
EnableTrading_running ==
    /\ ControlFree
    /\ trading_enabled' = TRUE
    /\ is_running' = TRUE
    /\ cycle' = NoteEnabled(TRUE)
    /\ estop' = NoEmergencyStop
    /\ UNCHANGED << position_stops, trailing_stop, recent_decisions,
                    decision_log, ExecutorVars, daily_pnl, last_reset, risk_alerts,
                    trading_stats, last_trading_cycle, pc,
                    demo_mode, old_threads, pool, monitor, orders_accepted, now, call, ret >>

\* enable_trading
EnableTrading ==
    /\ ControlFree
    /\ trading_enabled' = TRUE
    /\ cycle' = NoteEnabled(TRUE)
    /\ estop' = NoEmergencyStop
    /\ UNCHANGED << position_stops, trailing_stop, recent_decisions,
                    decision_log, ExecutorVars, daily_pnl, last_reset, risk_alerts,
                    is_running, trading_stats, last_trading_cycle, pc,
                    demo_mode, old_threads, pool, monitor, orders_accepted, now, call, ret >>

\* disable_trading
DisableTrading ==
    /\ ControlFree
    /\ trading_enabled' = FALSE
    /\ estop' = NoEmergencyStop
    /\ UNCHANGED << position_stops, trailing_stop, recent_decisions,
                    decision_log, ExecutorVars, daily_pnl, last_reset, risk_alerts,
                    is_running, trading_stats, last_trading_cycle, pc, cycle,
                    demo_mode, old_threads, pool, monitor, orders_accepted, now, call, ret >>

\* emergency_stop: trading is disabled and the active orders are listed
ES_Begin ==
    /\ ControlFree
    /\ trading_enabled' = FALSE
    /\ estop' = [ phase |-> "cancel", ids |-> OrderIds(active_orders),
                  k |-> 1, attempts |-> << >>, was_running |-> is_running ]
    /\ UNCHANGED << position_stops, trailing_stop, recent_decisions,
                    decision_log, ExecutorVars, daily_pnl, last_reset, risk_alerts,
                    is_running, trading_stats, last_trading_cycle, pc, cycle,
                    demo_mode, old_threads, pool, monitor, orders_accepted, now, call, ret >>

\* a plausible slip: the sweep ends at the first cancel that fails
AfterCancel_abort(es, outcome) ==
    LET attempt == [order_id |-> es.ids[es.k], outcome |-> outcome,
                    logged |-> "cancelled"]
    IN  IF outcome = "success"
        THEN [es EXCEPT !.k = @ + 1, !.attempts = Append(@, attempt)]
        ELSE [es EXCEPT !.k = Len(es.ids) + 1, !.attempts = Append(@, attempt)]

\* what emergency_stop logs for an order: "Failed to cancel order" only
\* when cancel_order raised, "Emergency cancelled order" whenever it
\* returned
EmergencyLog(outcome) ==
    IF outcome = "raise" THEN "failed" ELSE "cancelled"

\* the sweep goes on to the next order whatever the cancel returned;
\* attempts is the record of the cancel calls made and of what was logged
\* for each
AfterCancel(es, outcome) ==
    [es EXCEPT !.k = @ + 1,
               !.attempts = Append(@, [order_id |-> es.ids[es.k],
                                       outcome  |-> outcome,
                                       logged   |-> EmergencyLog(outcome)])]

\* emergency_stop: the cancel of one listed order
ES_Cancel ==
    /\ estop.phase = "cancel"
    /\ estop.k <= Len(estop.ids)
    /\ LET r == cancel_order([ active    |-> active_orders,
                               completed |-> completed_orders,
                               failed    |-> failed_orders ],
                             estop.ids[estop.k], demo_mode)
       IN  /\ active_orders' = r.om.active
           /\ completed_orders' = r.om.completed
           /\ failed_orders' = r.om.failed
           /\ estop' = AfterCancel(estop, r.outcome)
    /\ UNCHANGED << position_stops, trailing_stop, recent_decisions,
                    decision_log, execution_history, daily_stats, daily_pnl, last_reset,
                    risk_alerts, is_running, trading_enabled, trading_stats,
                    last_trading_cycle, pc, cycle, demo_mode, old_threads, pool, monitor, orders_accepted,
                    now, call, ret >>

\* emergency_stop: stop_trading, and the return
ES_Stop ==
    /\ estop.phase = "cancel"
    /\ estop.k > Len(estop.ids)
    /\ is_running' = FALSE
    /\ estop' = [estop EXCEPT !.phase = "done"]
    /\ monitor' = IF is_running THEN stop_monitoring(monitor) ELSE monitor
    /\ UNCHANGED << position_stops, trailing_stop, recent_decisions,
                    decision_log, ExecutorVars, daily_pnl, last_reset, risk_alerts,
                    trading_enabled, trading_stats, last_trading_cycle, pc,
                    cycle, demo_mode, old_threads, pool, orders_accepted, now, call, ret >>

\* ---- the caller of RiskManager.update_daily_pnl

\* the profit and loss changes reported
PnlChanges ==
    {-600, 600}

\* update_daily_pnl at second t: on a new day the tracking starts again
\* from 0, then the change is added
update_daily_pnl(daily, last, pnl_change, t) ==
    LET today == DateOf(t)
    IN  [ daily_pnl  |-> (IF today # last THEN 0 ELSE daily) + pnl_change,
          last_reset |-> today ]

RM_UpdateDailyPnl ==
    /\ \E change \in PnlChanges :
         LET u == update_daily_pnl(daily_pnl, last_reset, change, now)
         IN  /\ u.daily_pnl \in {-600, 0}
             /\ daily_pnl' = u.daily_pnl
             /\ last_reset' = u.last_reset
    /\ UNCHANGED << position_stops, trailing_stop, recent_decisions,
                    decision_log, ExecutorVars, risk_alerts, is_running,
                    trading_enabled, trading_stats, last_trading_cycle, pc,
                    cycle, estop, demo_mode, old_threads, pool, monitor, orders_accepted, now, call, ret >>

Init ==
    /\ position_stops = << >>
    /\ trailing_stop = TRUE
    /\ InitDecisionVars
    /\ InitExecutorVars
    /\ InitTraderVars
    /\ demo_mode = FALSE
    /\ orders_accepted = 0
    /\ call = [op |-> "init"]
    /\ ret = [kind |-> "none"]

Next ==
    \/ TL_CycleStart
    \/ TL_Decide
    \/ TL_Execute
    \/ TL_Results
    \/ TL_Monitor
    \/ TL_StopSell
    \/ TL_Sleep
    \/ TL_Except
    \/ StartTrading
    \/ StopTrading
    \/ EnableTrading
    \/ DisableTrading
    \/ ES_Begin
    \/ ES_Cancel
    \/ ES_Stop
    \/ RM_UpdateDailyPnl

Spec ==
    Init /\ [][Next]_vars


\* ------------------------------------------------------------------------
\* The claims about the trading loop
\* ------------------------------------------------------------------------

\* C3: every decision the loop hands to the executor after the risk
\* assessment, adjustments applied, has a position_size_usd of at most
\* max_position_risk of the total_value_usd of the portfolio snapshot the
\* assessment used.
C3_ApprovedWithinPositionRisk ==
    pc = "execute" =>
        \A d \in 1..Len(cycle.approved_decisions) :
            cycle.approved_decisions[d].position_size_usd * 100
                <= max_position_risk * cycle.total_value_usd

\* C3 witness: a decision assessed against a funded snapshot is handed to
\* the executor
C3_Witness ==
    /\ pc = "execute"
    /\ cycle.total_value_usd > 0
    /\ \E d \in 1..Len(cycle.approved_decisions) :
           cycle.approved_decisions[d].position_size_usd > 0

\* C4: a cycle in which monitor_portfolio_risk has reported a critical alert
\* hands no decision to the executor, neither an approved decision nor the
\* sell of a triggered stop.
C4_CriticalAlertNoOrder ==
    (\E a \in 1..Len(cycle.alerts) : cycle.alerts[a].severity = "critical")
        => cycle.calls = 0

\* C4 witness: a cycle with opportunities, trading enabled, has met a
\* critical alert and goes to sleep without an order
C4_Witness ==
    /\ pc = "sleep"
    /\ trading_enabled
    /\ cycle.opportunities # << >>
    /\ \E a \in 1..Len(cycle.alerts) :
           /\ cycle.alerts[a].severity = "critical"
           /\ cycle.alerts[a].type = "daily_loss_limit"
    /\ cycle.calls = 0

\* C5: a cycle throughout which trading_enabled is false hands nothing to the
\* executor, neither its approved decisions nor the sells of the stops that
\* triggered.
C5_DisabledCycleSubmitsNothing ==
    ~cycle.was_enabled => cycle.calls = 0

\* C5 witness: a cycle with trading disabled throughout has approved a
\* decision and found a triggered stop, and ends without a call
C5_Witness ==
    /\ pc = "sleep"
    /\ ~cycle.was_enabled
    /\ cycle.approved_decisions # << >>
    /\ cycle.triggered_stops # << >>
    /\ cycle.calls = 0

\* C6: once the loop has gone through the execution results, every BUY the
\* executor reported as successful has a stop-loss for its symbol whose
\* entry_price is the reference price recorded for that execution and whose
\* stop_price is entry_price * (1 - default_stop_loss).
C6_StopAtExecutionPrice ==
    pc = "monitor" =>
        \A r \in 1..Len(cycle.execution_results) :
            LET result == cycle.execution_results[r]
            IN  (result.success /\ result.action = "BUY") =>
                    /\ HasStop(position_stops, result.symbol)
                    /\ StopOf(position_stops, result.symbol).entry_price
                           = result.expected_price
                    /\ StopOf(position_stops, result.symbol).stop_price
                           = StopPriceFor(result.expected_price,
                                          default_stop_loss)

\* C9: a stop that is still in the map as triggered (its sell did not
\* succeed in the cycle it triggered in) is reported again by the stop
\* check of a later cycle that runs with trading enabled and sees a price
\* for its symbol at or below the stop, so that its sell is attempted again.
C9_FailedStopRetried ==
    [][ (pc = "monitor" /\ pc' # "monitor" /\ trading_enabled) =>
            \A s \in 1..Len(position_stops) :
                LET stop == position_stops[s]
                IN  ( /\ stop.triggered
                      /\ stop.symbol \in DOMAIN cycle'.current_prices
                      /\ cycle'.current_prices[stop.symbol] <= stop.stop_price )
                    => stop.symbol \in SymbolsOf(cycle'.triggered_stops) ]_vars


\* ------------------------------------------------------------------------
\* SpecExec: the TradeExecutor of a trader driven call by call, as the loop
\* and the callers of its methods drive it, against the demo gateway or the
\* live one, with emergency_stop running beside the calls
\* ------------------------------------------------------------------------

\* the decisions handed to the executor
ExecDecisions ==
    { [ action |-> "BUY", symbol |-> "BTC-USD", position_size_usd |-> 900,
        balance |-> 0 ],
      [ action |-> "SELL", symbol |-> "BTC-USD", position_size_usd |-> 50000,
        balance |-> 1 ] }

\* the seconds that pass between two calls
ExecAdvanceSteps ==
    {3}

\* the clock of this harness stops here
MaxExecTime ==
    6

\* the orders the harness sends to the gateway
MaxExecOrders ==
    2

\* what the calls on the executor leave alone
NotExecutorVars ==
    << position_stops, trailing_stop, recent_decisions, decision_log,
       daily_pnl, last_reset, risk_alerts, is_running, trading_enabled, trading_stats,
       last_trading_cycle, pc, cycle, estop, demo_mode, old_threads, pool, monitor >>

InitExec ==
    /\ position_stops = << >>
    /\ trailing_stop = TRUE
    /\ InitDecisionVars
    /\ InitExecutorVars
    /\ InitTraderVars
    /\ demo_mode \in BOOLEAN
    /\ orders_accepted = 0
    /\ call = [op |-> "init", parity |-> FALSE]
    /\ ret = [kind |-> "none"]

\* execute_buy_decision / execute_sell_decision.  call records the call:
\* parity flips with every call of the two, refused tells that the gateway
\* was asked to create the order and answered with an error.
EX_ExecuteDecision ==
    \E d \in ExecDecisions,
       ticker \in GatewayTickers(demo_mode, ExecutionPrices),
       response \in OrderAnswers :
        LET resp == GatewayCreateOrder(demo_mode, now, response)
            r    == IF d.action = "BUY"
                    THEN execute_buy_decision(Ex, d, now, ticker, resp)
                    ELSE execute_sell_decision(Ex, d, now, ticker, resp)
        IN  /\ daily_stats.trades_executed + daily_stats.failed_trades
                   < MaxExecOrders
            /\ SetEx(r.ex)
            /\ orders_accepted' = orders_accepted + (IF r.success THEN 1 ELSE 0)
            /\ call' = [op |-> "execute_decision", parity |-> ~call.parity,
                        refused |->
                            /\ pre_execution_checks(execution_history, d.symbol,
                                                    d.position_size_usd, now)
                            /\ ~ticker.error
                            /\ resp.error]
            /\ ret' = [kind |-> "result", success |-> r.success,
                       error |-> r.error]
            /\ UNCHANGED << NotExecutorVars, now >>

\* monitor_active_orders
EX_MonitorActiveOrders ==
    /\ SetEx(monitor_active_orders(Ex, now, demo_mode))
    /\ call' = [op |-> "monitor_active_orders", parity |-> call.parity]
    /\ ret' = [kind |-> "monitoring"]
    /\ UNCHANGED << NotExecutorVars, orders_accepted, now >>

\* order_manager.cancel_order on an order the manager has held
EX_CancelOrder ==
    \E id \in { active_orders[o].id : o \in 1..Len(active_orders) } \cup
              { completed_orders[o].id : o \in 1..Len(completed_orders) } :
        LET r == cancel_order([ active    |-> active_orders,
                                completed |-> completed_orders,
                                failed    |-> failed_orders ], id, demo_mode)
        IN  /\ active_orders' = r.om.active
            /\ completed_orders' = r.om.completed
            /\ failed_orders' = r.om.failed
            /\ call' = [op |-> "cancel_order", parity |-> call.parity]
            /\ ret' = [kind |-> "cancel"]
            /\ UNCHANGED << NotExecutorVars, execution_history, daily_stats,
                            orders_accepted, now >>

\* time passes
EX_Advance ==
    \E step \in ExecAdvanceSteps :
        /\ now + step <= MaxExecTime
        /\ now' = now + step
        /\ UNCHANGED << position_stops, trailing_stop, recent_decisions,
                        decision_log, ExecutorVars, TraderVars, demo_mode, old_threads, pool, monitor,
                        orders_accepted, call, ret >>

NextExec ==
    \/ EX_ExecuteDecision
    \/ EX_MonitorActiveOrders
    \/ EX_CancelOrder
    \/ EX_Advance
    \/ StartTrading
    \/ ES_Begin
    \/ ES_Cancel
    \/ ES_Stop

SpecExec ==
    InitExec /\ [][NextExec]_vars

\* C7: when emergency_stop returns it has called cancel_order once for each
\* order that was active when it listed them, in that order, whatever the
\* single cancels returned, and trading_enabled and is_running are false.
C7_EmergencyStopSweepsAll ==
    estop.phase = "done" =>
        /\ Len(estop.attempts) = Len(estop.ids)
        /\ \A a \in 1..Len(estop.ids) :
               estop.attempts[a].order_id = estop.ids[a]
        /\ ~trading_enabled
        /\ ~is_running

\* C7 witness: emergency_stop has returned on a running trader with two
\* active orders, one cancel failed and the next one succeeded
C7_Witness ==
    /\ estop.phase = "done"
    /\ estop.was_running
    /\ Len(estop.ids) = 2
    /\ Len(estop.attempts) = 2
    /\ estop.attempts[1].outcome = "error"
    /\ estop.attempts[2].outcome = "success"
    /\ ~trading_enabled
    /\ ~is_running

\* C10: no successfully submitted order is dropped: the orders in
\* active_orders, completed_orders and failed_orders are as many as the
\* submissions that succeeded.
C10_NoOrderDropped ==
    Len(active_orders) + Len(completed_orders) + Len(failed_orders)
        = orders_accepted

\* C10 witness: of two orders submitted, one has completed and one was
\* cancelled
C10_Witness ==
    /\ orders_accepted = 2
    /\ Len(active_orders) = 0
    /\ Len(completed_orders) = 1
    /\ Len(failed_orders) = 1

\* s is a prefix of t
IsPrefix(s, t) ==
    /\ Len(s) <= Len(t)
    /\ \A i \in 1..Len(s) : s[i] = t[i]

C12_RefusedOrderLeavesNoRecord ==
    [][ ( /\ call'.op = "execute_decision"
          /\ call'.parity # call.parity
          /\ call'.refused )
        => /\ ~ret'.success
           /\ ret'.error # ""
           /\ active_orders' = active_orders
           /\ execution_history' = execution_history ]_vars

\* C12 witness: the gateway has refused an order while another order was
\* active and recorded
C12_Witness ==
    /\ call.op = "execute_decision"
    /\ call.refused
    /\ ~ret.success
    /\ Len(active_orders) = 1
    /\ Len(execution_history) = 1

\* ------------------------------------------------------------------------
\* SpecGuard: execute_buy_decision and execute_sell_decision called over
\* more than five minutes, so that the window of the over-trading guard fills and
\* slides
\* ------------------------------------------------------------------------

\* the decisions handed to the executor: a buy, a buy of less than $1 and
\* a sell
GuardDecisions ==
    { [ action |-> "BUY", symbol |-> "BTC-USD", position_size_usd |-> 900,
        balance |-> 0 ],
      [ action |-> "BUY", symbol |-> "BTC-USD", position_size_usd |-> 0,
        balance |-> 0 ],
      [ action |-> "SELL", symbol |-> "ETH-USD", position_size_usd |-> 3000,
        balance |-> 1 ] }

\* the seconds that pass between two calls
GuardAdvanceSteps ==
    {100}

\* the clock of this harness stops here
MaxGuardTime ==
    400

\* the orders the harness sends to the gateway
MaxGuardOrders ==
    5

InitGuard ==
    /\ position_stops = << >>
    /\ trailing_stop = TRUE
    /\ InitDecisionVars
    /\ InitExecutorVars
    /\ InitTraderVars
    /\ demo_mode = FALSE
    /\ orders_accepted = 0
    /\ call = [op |-> "init", parity |-> FALSE]
    /\ ret = [kind |-> "none"]

\* execute_buy_decision / execute_sell_decision.  call records the call:
\* parity flips with every call, submitted tells that the gateway was asked
\* to create the order.
GD_ExecuteDecision ==
    \E d \in GuardDecisions,
       ticker \in GatewayTickers(demo_mode, ExecutionPrices),
       response \in OrderAnswers :
        LET resp == GatewayCreateOrder(demo_mode, now, response)
            r    == IF d.action = "BUY"
                    THEN execute_buy_decision(Ex, d, now, ticker, resp)
                    ELSE execute_sell_decision(Ex, d, now, ticker, resp)
        IN  /\ daily_stats.trades_executed + daily_stats.failed_trades
                   < MaxGuardOrders
            /\ SetEx(r.ex)
            /\ orders_accepted' = orders_accepted + (IF r.success THEN 1 ELSE 0)
            /\ call' = [op |-> "execute_decision", parity |-> ~call.parity,
                        symbol |-> d.symbol, usd |-> d.position_size_usd,
                        submitted |-> r.error \in {"", "order_refused"}]
            /\ ret' = [kind |-> "result", success |-> r.success,
                       error |-> r.error]
            /\ UNCHANGED << NotExecutorVars, now >>

\* time passes
GD_Advance ==
    \E step \in GuardAdvanceSteps :
        /\ now + step <= MaxGuardTime
        /\ now' = now + step
        /\ UNCHANGED << position_stops, trailing_stop, recent_decisions,
                        decision_log, ExecutorVars, TraderVars, demo_mode, old_threads, pool, monitor,
                        orders_accepted, call, ret >>

NextGuard ==
    \/ GD_ExecuteDecision
    \/ GD_Advance

SpecGuard ==
    InitGuard /\ [][NextGuard]_vars

\* the execution records of a symbol less than 5 minutes before second t
RecentRecords(history, symbol, t) ==
    { i \in 1..Len(history) :
        /\ history[i].symbol = symbol
        /\ t - history[i].timestamp < recent_trade_window }

\* C13: the executor asks the gateway for an order only when the amount is
\* at least $1 and the symbol has fewer than 3 execution records in the 5
\* minutes before; and no execution record has more than 2 records of its
\* symbol before it in the 5 minutes up to its own time.
C13_OverTradingGuard ==
    /\ [] ( \A i \in 1..Len(execution_history) :
              Cardinality({ j \in 1..i :
                  /\ execution_history[j].symbol = execution_history[i].symbol
                  /\ execution_history[i].timestamp
                         - execution_history[j].timestamp
                       < recent_trade_window }) <= max_recent_trades )
    /\ [][ ( /\ call'.op = "execute_decision"
             /\ call'.parity # call.parity
             /\ call'.submitted )
           => /\ call'.usd >= 1
              /\ Cardinality(RecentRecords(execution_history, call'.symbol,
                                           now)) < 3 ]_vars

\* C13 witness: a buy of $900 was turned down by the guard with three
\* records of its symbol in the window, and a buy went through again once
\* the window had passed
C13_Witness ==
    /\ Len(execution_history) = 4
    /\ \A i \in 1..4 : execution_history[i].symbol = "BTC-USD"
    /\ execution_history[4].timestamp - execution_history[1].timestamp
           = recent_trade_window
    /\ call.op = "execute_decision"
    /\ call.usd = 900
    /\ ret.error = "pre_execution_checks"

\* C16: a new trader is not running and has trading enabled; is_running
\* changes only in start_trading, which sets it, and in stop_trading and
\* emergency_stop, which clear it; trading_enabled changes only in
\* enable_trading, which sets it, and in disable_trading and emergency_stop,
\* which clear it; start_trading and stop_trading leave trading_enabled
\* alone, enable_trading and disable_trading leave is_running alone, and a
\* start_trading of a running trader or a stop_trading of a stopped one is
\* no step at all.
C16_FlagsIndependent ==
    /\ (is_running = FALSE /\ trading_enabled = TRUE)
    /\ [][ /\ is_running' # is_running
              => (StartTrading \/ StopTrading \/ ES_Stop)
           /\ trading_enabled' # trading_enabled
              => (EnableTrading \/ DisableTrading \/ ES_Begin)
           /\ StartTrading
              => (is_running = FALSE /\ is_running' = TRUE
                  /\ trading_enabled' = trading_enabled)
           /\ StopTrading
              => (is_running = TRUE /\ is_running' = FALSE
                  /\ trading_enabled' = trading_enabled)
           /\ EnableTrading => (trading_enabled' = TRUE /\ is_running' = is_running)
           /\ DisableTrading => (trading_enabled' = FALSE /\ is_running' = is_running)
           /\ ES_Begin => (trading_enabled' = FALSE /\ is_running' = is_running)
           /\ ES_Cancel => (trading_enabled' = FALSE /\ is_running' = is_running)
           /\ ES_Stop => (trading_enabled' = FALSE /\ is_running' = FALSE) ]_vars

\* C16 witness: a running trader with trading disabled, its loop in a cycle
\* and no emergency_stop behind it
C16_Witness ==
    /\ is_running
    /\ ~trading_enabled
    /\ estop.phase = "none"
    /\ pc = "decide"

\* ------------------------------------------------------------------------
\* CryptoMonitor (monitor.py)
\* ------------------------------------------------------------------------

\* the confidence an opportunity must exceed, 0.7
opportunity_confidence ==
    70

\* a test that lets a confidence of exactly 0.7 pass
IsOpportunity_atleast(signal, confidence) ==
    /\ signal \in {"BUY", "STRONG_BUY"}
    /\ confidence >= opportunity_confidence

\* signal in ["BUY", "STRONG_BUY"] and confidence > 0.7
IsOpportunity(signal, confidence) ==
    /\ signal \in {"BUY", "STRONG_BUY"}
    /\ confidence > opportunity_confidence

\* identify_best_opportunities on the results of one timeframe, a dict from
\* symbol to result kept as a sequence in insertion order; the timeframe
\* is the entry its two callers add to every opportunity returned
identify_best_opportunities(results, timeframe) ==
    LET kept == SelectSeq(results,
                          LAMBDA r : IsOpportunity(r.signal, r.confidence))
    IN  SortByReturn([ k \in 1..Len(kept) |->
                         Opp(kept[k].symbol, kept[k].signal,
                             kept[k].confidence, timeframe) ])

\* the opportunities of all timeframes of an analysis, one list after the
\* other
RECURSIVE AllOpportunities(_, _)
AllOpportunities(results, i) ==
    IF i > Len(results) THEN << >>
    ELSE identify_best_opportunities(results[i].results, results[i].timeframe)
             \o AllOpportunities(results, i + 1)

\* all_opportunities[:limit], limit >= 0
Take(list, limit) ==
    SubSeq(list, 1, IF limit < Len(list) THEN limit ELSE Len(list))

\* get_latest_opportunities
get_latest_opportunities(last_analysis, limit) ==
    IF last_analysis = None THEN << >>
    ELSE Take(SortByReturn(AllOpportunities(last_analysis[1].results, 1)),
              limit)

\* one analysis result of a symbol
Result(symbol, signal, confidence) ==
    [ symbol |-> symbol, signal |-> signal, confidence |-> confidence ]

\* what a monitoring cycle can find for its three timeframes: nothing; a
\* mix with a confidence of exactly 0.7, a signal that is no buy signal and
\* returns that are out of order across the timeframes; and equal returns
Analyses ==
    { << [timeframe |-> "1h", results |-> << >>],
         [timeframe |-> "1d", results |-> << >>],
         [timeframe |-> "7d", results |-> << >>] >>,
      << [timeframe |-> "1h", results |->
             << Result("ETH-USD", "BUY", 80),
                Result("BTC-USD", "STRONG_BUY", 90) >>],
         [timeframe |-> "1d", results |->
             << Result("BTC-USD", "BUY", 70),
                Result("ETH-USD", "SELL", 95) >>],
         [timeframe |-> "7d", results |->
             << Result("BTC-USD", "BUY", 95),
                Result("ETH-USD", "STRONG_BUY", 75) >>] >>,
      << [timeframe |-> "1h", results |-> << Result("BTC-USD", "BUY", 80) >>],
         [timeframe |-> "1d", results |->
             << Result("BTC-USD", "NEUTRAL", 99),
                Result("ETH-USD", "BUY", 80) >>],
         [timeframe |-> "7d", results |-> << >>] >> }

\* the head of monitoring_loop and one cycle of it: the loop ends when
\* is_running is false; with no tradeable coins the cycle is given up,
\* else the analysis of the three timeframes is stored; then the loop sleeps
ML_Cycle ==
    /\ monitor.pc = "loop"
    /\ IF ~monitor.is_running
       THEN monitor' = [monitor EXCEPT !.pc = "idle"]
       ELSE \/ monitor' = [monitor EXCEPT !.pc = "sleep"]
            \/ \E a \in Analyses :
                 monitor' = [monitor EXCEPT
                               !.last_analysis = << [results |-> a] >>,
                               !.pc = "sleep"]
    /\ UNCHANGED << position_stops, trailing_stop, recent_decisions,
                    decision_log, ExecutorVars, TraderVars, demo_mode, old_threads, pool,
                    orders_accepted, now, call, ret >>

\* the sleep of monitoring_loop ends
ML_Sleep ==
    /\ monitor.pc = "sleep"
    /\ monitor' = [monitor EXCEPT !.pc = "loop"]
    /\ UNCHANGED << position_stops, trailing_stop, recent_decisions,
                    decision_log, ExecutorVars, TraderVars, demo_mode, old_threads, pool,
                    orders_accepted, now, call, ret >>

\* ------------------------------------------------------------------------
\* Claims about the life of the loop and the control calls (Spec)
\* ------------------------------------------------------------------------

\* C14: the trading loop ends only in a step that finds is_running false;
\* an exception in a cycle is followed by the sleep of 60 seconds and the
\* head of the loop, and at the head of the loop a running trader begins
\* the next cycle.
C14_LoopEndsOnlyWhenStopped ==
    /\ [][ (pc # "idle" /\ pc' = "idle") => (~is_running /\ pc = "loop") ]_vars
    /\ [][ (pc = "except" /\ pc' # "except")
           => (pc' = "loop" /\ now' = now + exception_sleep) ]_vars
    /\ [][ (pc = "loop" /\ pc' # "loop" /\ is_running)
           => (pc' \in {"decide", "sleep"} /\ cycle'.cycle_start = now) ]_vars

\* C14 witness: an exception has been raised in a cycle of a running trader
\* that had fetched opportunities
C14_Witness ==
    /\ pc = "except"
    /\ is_running
    /\ cycle.opportunities # << >>

\* ------------------------------------------------------------------------
\* SpecStop: the trading thread and the monitoring thread of a trader that
\* is started once and stopped at any moment.  Both threads are scheduled
\* again and again, and their sleeps end: each is weakly fair.
\* ------------------------------------------------------------------------

\* the steps of the thread of _trading_loop
TradingThread ==
    \/ TL_CycleStart
    \/ TL_Decide
    \/ TL_Execute
    \/ TL_Results
    \/ TL_Monitor
    \/ TL_StopSell
    \/ TL_Sleep
    \/ TL_Except

\* the steps of the thread of monitoring_loop
MonitoringThread ==
    \/ ML_Cycle
    \/ ML_Sleep

\* start_trading is called once
NextStop ==
    \/ TradingThread
    \/ MonitoringThread
    \/ (trading_stats.start_time = None /\ StartTrading)
    \/ StopTrading

\* the trading thread has a step to take: it has not ended, and it is not
\* at the head of the loop of a running trader with the clock at its bound
\* (the enabling condition of TradingThread)
TradingThreadCanStep ==
    /\ pc # "idle"
    /\ ~(pc = "loop" /\ is_running /\ now > MaxLoopTime)

\* weak fairness of TradingThread, written out with its enabling condition
\* as a state predicate; every step of the thread changes pc or cycle
TradingThreadFair ==
    \/ []<>(~TradingThreadCanStep)
    \/ []<><<TradingThread>>_<<pc, cycle>>

SpecStop ==
    /\ Init
    /\ [][NextStop]_vars
    /\ TradingThreadFair
    /\ WF_monitor(MonitoringThread)

MaxCallTime ==
    3600

\* ------------------------------------------------------------------------
\* SpecCalls: the calls a user of the trader makes between its cycles:
\* start_trading and stop_trading, the status calls, each made twice in a
\* row, and beside them the monitoring thread and the calls that fill the
\* decision engine's record of recent decisions
\* ------------------------------------------------------------------------

\* get_decision_stats at second t
get_decision_stats(t) ==
    [ decisions_last_hour |->
          Cardinality({ d \in 1..Len(recent_decisions) :
                          recent_decisions[d].timestamp > t - 3600 }),
      decisions_last_day |->
          Cardinality({ d \in 1..Len(recent_decisions) :
                          recent_decisions[d].timestamp > t - 86400 }),
      total_tracked_decisions |-> Len(recent_decisions) ]

\* get_status at second t (the settings that never change are left out)
get_status(t) ==
    [ is_running         |-> is_running,
      trading_enabled    |-> trading_enabled,
      last_trading_cycle |-> last_trading_cycle,
      trading_stats      |-> trading_stats,
      monitor_status     |-> [ is_running |-> monitor.is_running,
                               analysed   |-> monitor.last_analysis # None ],
      decision_stats     |-> get_decision_stats(t),
      execution_stats    |->
          [ daily_stats   |-> daily_stats,
            order_summary |->
                [ active_orders    |-> Len(active_orders),
                  completed_orders |-> Len(completed_orders),
                  failed_orders    |-> Len(failed_orders),
                  active_order_ids |-> OrderIds(active_orders) ],
            execution_history_count |-> Len(execution_history) ],
      risk_summary       |->
          [ daily_pnl         |-> daily_pnl,
            active_stops      |-> Len(position_stops),
            risk_alerts_count |-> Len(risk_alerts) ] ]

\* get_performance_summary at second t; the uptime is kept in seconds, the
\* rates in percents and in trades per hour, rounded down
get_performance_summary(t) ==
    LET total_trades == trading_stats.total_trades
        uptime == IF trading_stats.start_time = None THEN 0
                  ELSE t - trading_stats.start_time[1]
    IN  [ uptime           |-> uptime,
          cycles_completed |-> trading_stats.cycles_completed,
          total_trades     |-> total_trades,
          success_rate     |->
              IF total_trades > 0
              THEN (trading_stats.successful_trades * 100) \div total_trades
              ELSE 0,
          total_volume     |-> trading_stats.total_volume,
          average_trade_size |->
              IF total_trades > 0
              THEN trading_stats.total_volume \div total_trades
              ELSE 0,
          trades_per_hour  |->
              IF uptime > 0 THEN (total_trades * 3600) \div uptime ELSE 0 ]

\* the seconds between the two calls of a pair
StatusDelays ==
    {0, 3600}

\* get_status called twice, delay seconds apart, with nothing in between
ST_GetStatusTwice ==
    \E delay \in StatusDelays :
        /\ now' = now + delay
        /\ call' = [op |-> "get_status", delay |-> delay]
        /\ ret' = [kind |-> "twice", first |-> get_status(now),
                   second |-> get_status(now + delay)]
        /\ now + delay <= MaxCallTime
        /\ UNCHANGED << position_stops, trailing_stop, recent_decisions,
                        decision_log, ExecutorVars, TraderVars, demo_mode, old_threads, pool,
                        monitor, orders_accepted >>

\* get_performance_summary called twice, delay seconds apart
ST_GetPerformanceSummaryTwice ==
    \E delay \in StatusDelays :
        /\ now' = now + delay
        /\ call' = [op |-> "get_performance_summary", delay |-> delay]
        /\ ret' = [kind |-> "twice", first |-> get_performance_summary(now),
                   second |-> get_performance_summary(now + delay)]
        /\ now + delay <= MaxCallTime
        /\ UNCHANGED << position_stops, trailing_stop, recent_decisions,
                        decision_log, ExecutorVars, TraderVars, demo_mode, old_threads, pool,
                        monitor, orders_accepted >>

\* the limits get_latest_opportunities is called with: none, fewer than
\* there are opportunities, and the default
Limits ==
    {0, 1, 2, 10}

\* get_latest_opportunities(limit); the call keeps the analysis it read
MO_GetLatestOpportunities ==
    \E limit \in Limits :
        /\ call' = [op |-> "get_latest_opportunities", limit |-> limit,
                    analysis |-> monitor.last_analysis]
        /\ ret' = [kind |-> "opportunities",
                   list |-> get_latest_opportunities(monitor.last_analysis,
                                                     limit)]
        /\ UNCHANGED << position_stops, trailing_stop, recent_decisions,
                        decision_log, ExecutorVars, TraderVars, demo_mode, old_threads, pool,
                        monitor, orders_accepted, now >>

\* the decisions and the portfolio totals assess_trade_risk is called
\* with: sizes below, at and above 10% of a total, confidences below, at
\* and above 0.7; totals of which a loss of 600 is more than, exactly and
\* less than 5%, and an empty portfolio
RiskDecisions ==
    { [symbol |-> "BTC-USD", position_size_usd |-> size, confidence |-> c] :
        size \in {500, 3000}, c \in {69, 70, 90} }

RiskTotals ==
    {0, 5000, 12000, 20000}

\* assess_trade_risk(decision, portfolio)
RK_AssessTradeRisk ==
    \E decision \in RiskDecisions, total \in RiskTotals :
        /\ call' = [op |-> "assess_trade_risk", decision |-> decision,
                    total_value_usd |-> total, daily_pnl |-> daily_pnl,
                    last_reset |-> last_reset, today |-> DateOf(now)]
        /\ ret' = [kind |-> "assessment",
                   assessment |->
                       assess_trade_risk(decision,
                                         [total_value_usd |-> total],
                                         daily_pnl)]
        /\ UNCHANGED << position_stops, trailing_stop, recent_decisions,
                        decision_log, ExecutorVars, TraderVars, demo_mode, old_threads, pool,
                        monitor, orders_accepted, now >>

NextCalls ==
    \/ StartTrading
    \/ StopTrading
    \/ MonitoringThread
    \/ (recent_decisions = << >> /\ DE_MakeTradingDecision)
    \/ ST_GetStatusTwice
    \/ ST_GetPerformanceSummaryTwice
    \/ MO_GetLatestOpportunities
    \/ RM_UpdateDailyPnl
    \/ RK_AssessTradeRisk

SpecCalls ==
    Init /\ [][NextCalls]_vars

\* C17: get_status and get_performance_summary, called twice with no cycle
\* in between, return the same result both times.
C17_StatusCallsIdempotent ==
    ret.kind = "twice" => ret.first = ret.second

\* C17 witness: two calls of get_status on a running trader with a recent
\* decision have returned the same result
C17_Witness ==
    /\ call.op = "get_status"
    /\ ret.kind = "twice"
    /\ ret.first = ret.second
    /\ ret.first.is_running
    /\ ret.first.decision_stats.total_tracked_decisions > 0

\* the results of the analysis a call read that qualify as opportunities,
\* each named by its timeframe and its place among the timeframe's results
Qualifying(analysis) ==
    IF analysis = None THEN {}
    ELSE { q \in UNION { { <<i, j>> : j \in 1..Len(analysis[1].results[i].results) } :
                         i \in 1..Len(analysis[1].results) } :
             LET r == analysis[1].results[q[1]].results[q[2]]
             IN  /\ r.signal \in {"BUY", "STRONG_BUY"}
                 /\ r.confidence > opportunity_confidence }

\* the opportunity a qualifying result must be served as
Served(analysis, q) ==
    LET r == analysis[1].results[q[1]].results[q[2]]
    IN  [ symbol           |-> r.symbol,
          signal           |-> r.signal,
          confidence       |-> r.confidence,
          timeframe        |-> analysis[1].results[q[1]].timeframe,
          potential_return |->
              IF r.signal = "STRONG_BUY" THEN 2 * r.confidence
              ELSE r.confidence ]

\* C18: the list get_latest_opportunities(limit) returns holds only results
\* of the last analysis with signal BUY or STRONG_BUY and confidence above
\* 0.7, each with potential_return = confidence x 2 (STRONG_BUY) or x 1
\* (BUY), in descending order of potential_return across the timeframes; it
\* has min(limit, number of qualifying results) entries, and no result
\* left out has a higher potential_return than one returned.
C18_OpportunityRanking ==
    call.op = "get_latest_opportunities" =>
        LET list == ret.list
            qualifying == Qualifying(call.analysis)
        IN  /\ \A k \in 1..Len(list) :
                 /\ list[k].signal \in {"BUY", "STRONG_BUY"}
                 /\ list[k].confidence > opportunity_confidence
                 /\ \E q \in qualifying : list[k] = Served(call.analysis, q)
            /\ \A k \in 1..(Len(list) - 1) :
                 list[k].potential_return >= list[k + 1].potential_return
            /\ Len(list) <= call.limit
            /\ Len(list) = IF Cardinality(qualifying) < call.limit
                           THEN Cardinality(qualifying) ELSE call.limit
            /\ \A q \in qualifying :
                 \/ \E k \in 1..Len(list) : list[k] = Served(call.analysis, q)
                 \/ call.limit = 0
                 \/ /\ list # << >>
                    /\ Served(call.analysis, q).potential_return
                           <= list[Len(list)].potential_return

\* C18 witness: a call with limit 2 on an analysis with more than two
\* qualifying results returned a STRONG_BUY of one timeframe ahead of an
\* opportunity of another timeframe
C18_Witness ==
    /\ call.op = "get_latest_opportunities"
    /\ call.limit = 2
    /\ Cardinality(Qualifying(call.analysis)) > 2
    /\ Len(ret.list) = 2
    /\ ret.list[1].signal = "STRONG_BUY"
    /\ ret.list[1].timeframe # ret.list[2].timeframe
    /\ ret.list[1].potential_return > ret.list[2].potential_return

\* ------------------------------------------------------------------------
\* Claims about a cycle that cannot obtain the portfolio (Spec)
\* ------------------------------------------------------------------------

\* what a cycle writes when it decides, executes or registers a stop-loss
CycleEffects ==
    << recent_decisions, decision_log, position_stops, active_orders,
       completed_orders, failed_orders, execution_history, orders_accepted >>

\* C19: a cycle whose portfolio fetch returns an error goes from the head
\* of the loop straight to its sleep: it has no approved decision, no
\* execution result, no triggered stop and no call of the executor; the
\* step that fetches and the step that ends the sleep leave the recent
\* decisions, the decision log, the stop-losses and the orders alone; and
\* the sleep ends at the head of the loop, with is_running as it was.
C19_PortfolioErrorAbandonsCycle ==
    /\ [](cycle.portfolio_error =>
            /\ pc = "sleep"
            /\ cycle.approved_decisions = << >>
            /\ cycle.execution_results = << >>
            /\ cycle.triggered_stops = << >>
            /\ cycle.calls = 0)
    /\ [][ (~cycle.portfolio_error /\ cycle'.portfolio_error) =>
             /\ pc = "loop"
             /\ is_running
             /\ UNCHANGED CycleEffects ]_vars
    /\ [][ (cycle.portfolio_error /\ (pc' # pc \/ cycle' # cycle)) =>
             /\ pc' = "loop"
             /\ ~cycle'.portfolio_error
             /\ UNCHANGED is_running
             /\ UNCHANGED CycleEffects ]_vars

\* C19 witness: a running trader with trading enabled and a stop-loss from
\* an earlier cycle sleeps after a cycle with opportunities whose portfolio
\* fetch returned an error
C19_Witness ==
    /\ cycle.portfolio_error
    /\ pc = "sleep"
    /\ is_running
    /\ trading_enabled
    /\ cycle.opportunities # << >>
    /\ position_stops # << >>
    /\ recent_decisions # << >>

\* ------------------------------------------------------------------------
\* Claims about the risk assessment of a decision (SpecCalls)
\* ------------------------------------------------------------------------

\* C20: assess_trade_risk rejects a decision if and only if daily_pnl is
\* below -max_daily_loss times the portfolio's total value; a size above
\* max_position_risk of a positive total leaves that verdict as it is and
\* carries the adjustment position_size_usd = total x max_position_risk,
\* and there is no adjustment otherwise; a confidence below 0.7 makes the
\* risk score 0.3 instead of 0 and changes nothing else.
C20_RiskAssessment ==
    call.op = "assess_trade_risk" =>
        LET a      == ret.assessment
            size   == call.decision.position_size_usd
            total  == call.total_value_usd
            above  == total > 0 /\ size * 100 > max_position_risk * total
        IN  /\ (~a.approved) <=>
                   (call.daily_pnl * 100 < 0 - max_daily_loss * total)
            /\ above =>
                   a.adjustments = << (total * max_position_risk) \div 100 >>
            /\ ~above => a.adjustments = None
            /\ a.risk_score = IF call.decision.confidence < 70 THEN 30 ELSE 0

\* C20 witness: a decision of low confidence with a size above the
\* position limit is approved with an adjustment and a raised risk score
\* although the day has a loss, one that is exactly at the limit
C20_Witness ==
    /\ call.op = "assess_trade_risk"
    /\ call.daily_pnl * 100 = 0 - max_daily_loss * call.total_value_usd
    /\ call.daily_pnl < 0
    /\ call.decision.confidence < 70
    /\ call.decision.position_size_usd * 100
           > max_position_risk * call.total_value_usd
    /\ ret.assessment.approved
    /\ ret.assessment.adjustments # None
    /\ ret.assessment.risk_score > 0

\* ------------------------------------------------------------------------
\* SpecPortfolio: the calls of the PortfolioManager, one by one
\* ------------------------------------------------------------------------

\* the account answers can_open_position meets: an error, no funds, cash
\* only, cash and one coin worth 5% of the total
PortfolioAccounts ==
    HarnessAccounts \cup { [error |-> FALSE, usd |-> 0, held |-> << >>] }

\* the sizes asked for: nothing, sizes within every limit, above the
\* position limit, above the invested limit, above the cash
PositionSizes ==
    {0, 900, 2000, 60000, 800000, 960000}

\* can_open_position(symbol, position_size)
PM_CanOpenPosition ==
    \E a \in PortfolioAccounts, symbol \in Symbols, size \in PositionSizes :
        LET portfolio == get_portfolio_value(a, HarnessTicker)
        IN  /\ call' = [op |-> "can_open_position", symbol |-> symbol,
                        position_size |-> size, portfolio |-> portfolio]
            /\ ret' = [kind |-> "can_open",
                       answer |-> can_open_position(portfolio, symbol, size)]
            /\ UNCHANGED << position_stops, trailing_stop, recent_decisions,
                            decision_log, ExecutorVars, TraderVars, demo_mode, old_threads, pool,
                            monitor, orders_accepted, now >>

\* the portfolio values and the signal strengths (in percents) a size is
\* calculated for
PortfolioValues ==
    {0, 50, 100, 200, 500, 1000, 5000, 10000, 100000}

SignalStrengths ==
    {0, 10, 20, 30, 40, 50, 60, 70, 80, 90, 100}

\* calculate_position_size(symbol, portfolio_value, signal_strength)
PM_CalculatePositionSize ==
    \E value \in PortfolioValues, strength \in SignalStrengths :
        /\ call' = [op |-> "calculate_position_size",
                    portfolio_value |-> value, signal_strength |-> strength]
        /\ ret' = [kind |-> "size",
                   size |-> calculate_position_size(value, strength)]
        /\ UNCHANGED << position_stops, trailing_stop, recent_decisions,
                        decision_log, ExecutorVars, TraderVars, demo_mode, old_threads, pool,
                        monitor, orders_accepted, now >>

NextPortfolio ==
    \/ PM_CanOpenPosition
    \/ PM_CalculatePositionSize

SpecPortfolio ==
    Init /\ [][NextPortfolio]_vars

\* the value of the symbol's position in a portfolio, 0 when there is none
PositionValue(portfolio, symbol) ==
    IF CurrencyOf(symbol) \in DOMAIN portfolio.positions
    THEN portfolio.positions[CurrencyOf(symbol)].value_usd
    ELSE 0

\* C21: can_open_position returns false with a reason when the portfolio
\* carries an error, when the size exceeds the cash balance, when the
\* invested fraction after adding the size would exceed max_total_invested,
\* or when the symbol's position fraction after adding the size would
\* exceed max_position_percentage; it returns true otherwise.
C21_CanOpenPosition ==
    call.op = "can_open_position" =>
        LET portfolio == call.portfolio
            size      == call.position_size
            refuse ==
                \/ portfolio.error
                \/ size > portfolio.cash_balance
                \/ (portfolio.total_value_usd - portfolio.cash_balance + size)
                       * 100 > max_total_invested * portfolio.total_value_usd
                \/ (PositionValue(portfolio, call.symbol) + size) * 100
                       > max_position_percentage * portfolio.total_value_usd
        IN  IF refuse
            THEN ret.answer \in {"portfolio_error", "insufficient_cash",
                                 "max_invested", "max_position"}
            ELSE ret.answer = "ok"

\* C21 witness: a size that would take a position the portfolio already
\* holds above max_position_percentage, within the cash and the invested
\* limit, is refused
C21_Witness ==
    /\ call.op = "can_open_position"
    /\ ~call.portfolio.error
    /\ PositionValue(call.portfolio, call.symbol) > 0
    /\ call.position_size <= call.portfolio.cash_balance
    /\ ret.answer = "max_position"

\* C22: calculate_position_size returns portfolio_value x
\* max_position_percentage x signal_strength when that is at least
\* min_trade_amount, min_trade_amount when it is below the minimum and the
\* base size portfolio_value x max_position_percentage reaches it, and 0
\* otherwise; for a strength from 0 to 1 the result is 0 or lies between
\* min_trade_amount and the base size.
C22_PositionSize ==
    call.op = "calculate_position_size" =>
        LET base100     == call.portfolio_value * max_position_percentage
            adjusted1e4 == base100 * call.signal_strength
        IN  /\ adjusted1e4 >= min_trade_amount * 10000
                   => ret.size * 10000 = adjusted1e4
            /\ (adjusted1e4 < min_trade_amount * 10000
                    /\ base100 >= min_trade_amount * 100)
                   => ret.size = min_trade_amount
            /\ (adjusted1e4 < min_trade_amount * 10000
                    /\ base100 < min_trade_amount * 100)
                   => ret.size = 0
            /\ call.signal_strength \in 0..100
                   => \/ ret.size = 0
                      \/ /\ ret.size >= min_trade_amount
                         /\ ret.size * 100 <= base100

\* C22 witness: a size below the minimum was raised to the minimum because
\* the base size reaches it
C22_Witness ==
    /\ call.op = "calculate_position_size"
    /\ call.portfolio_value * max_position_percentage * call.signal_strength
           < min_trade_amount * 10000
    /\ call.signal_strength > 0
    /\ ret.size = min_trade_amount

\* ------------------------------------------------------------------------
\* SpecRisk: the RiskManager over several days
\* ------------------------------------------------------------------------

\* half a day passes
HalfDay ==
    43200

\* the clock of the risk harness stops here, two days after the start
MaxRiskTime ==
    172800

RK_Advance ==
    /\ now + HalfDay <= MaxRiskTime
    /\ now' = now + HalfDay
    /\ UNCHANGED << position_stops, trailing_stop, recent_decisions,
                    decision_log, ExecutorVars, TraderVars, demo_mode, old_threads, pool,
                    monitor, orders_accepted, call, ret >>

NextRisk ==
    \/ RM_UpdateDailyPnl
    \/ RK_AssessTradeRisk
    \/ RK_Advance

SpecRisk ==
    Init /\ [][NextRisk]_vars

\* C23: a risk check on a day other than the day the daily P&L was
\* accumulated on uses none of it: it approves as it does with a daily P&L
\* of 0.
C23_DailyPnlResetAtRollover ==
    (call.op = "assess_trade_risk" /\ call.last_reset # call.today)
        => ret.assessment.approved

\* C23 witness: a risk check on the second day rejects on a loss that was
\* reported on that day
C23_Witness ==
    /\ call.op = "assess_trade_risk"
    /\ call.today = 1
    /\ call.last_reset = 1
    /\ call.daily_pnl < 0
    /\ ~ret.assessment.approved

\* ------------------------------------------------------------------------
\* Claims about every write of a stop-loss (SpecStops)
\* ------------------------------------------------------------------------

\* C24: no operation lowers the stop_price of a symbol's untriggered
\* stop-loss, the registration after a repeated BUY of the symbol included.
C24_StopPriceNeverDecreases ==
    [][ \A i \in 1..Len(position_stops) :
          LET cfg == position_stops[i]
          IN  (~cfg.triggered /\ HasStop(position_stops', cfg.symbol))
                  => StopOf(position_stops', cfg.symbol).stop_price
                         >= cfg.stop_price ]_vars

\* ------------------------------------------------------------------------
\* Claims about what emergency_stop reports (SpecExec)
\* ------------------------------------------------------------------------

\* C25: emergency_stop reports an order as cancelled only when its cancel
\* succeeded: an order whose cancel_order call returned an error or raised
\* is reported as a failure.
C25_EmergencyStopReportsFailures ==
    \A a \in 1..Len(estop.attempts) :
        estop.attempts[a].outcome # "success"
            => estop.attempts[a].logged = "failed"

\* C25 witness: the sweep has reported a demo order as cancelled that its
\* cancel moved to the failed orders
C25_Witness ==
    /\ estop.phase = "done"
    /\ \E a \in 1..Len(estop.attempts) :
         /\ estop.attempts[a].outcome = "success"
         /\ estop.attempts[a].logged = "cancelled"
         /\ \E f \in 1..Len(failed_orders) :
              /\ failed_orders[f].id = estop.attempts[a].order_id
              /\ failed_orders[f].status = "cancelled"

\* ------------------------------------------------------------------------
\* Claims about the sell of a triggered stop (Spec)
\* ------------------------------------------------------------------------

\* the sell orders of a symbol in a collection of orders
SellOrders(orders, symbol) ==
    { i \in 1..Len(orders) :
        orders[i].symbol = symbol /\ orders[i].side = "sell" }

\* C26: a step removes the stop-loss record of a symbol only when a sell
\* order of the symbol has completed (status done) and none is pending.
C26_StopRemovedAfterSellCompletes ==
    [][ \A s \in Symbols :
          (HasStop(position_stops, s) /\ ~HasStop(position_stops', s)) =>
              /\ \E c \in SellOrders(completed_orders', s) :
                     completed_orders'[c].status = "done"
              /\ SellOrders(active_orders', s) = {} ]_vars

\* C26 witness: the sell of a triggered stop did not succeed and the
\* triggered record is still in the stop-loss map when the cycle ends
C26_Witness ==
    /\ pc = "sleep"
    /\ cycle.triggered_stops # << >>
    /\ \E t \in 1..Len(cycle.triggered_stops) :
         /\ HasStop(position_stops, cycle.triggered_stops[t].symbol)
         /\ StopOf(position_stops, cycle.triggered_stops[t].symbol).triggered
         /\ SellOrders(active_orders, cycle.triggered_stops[t].symbol) = {}

\* ------------------------------------------------------------------------
\* Claims about the execution records and the orders (SpecExec)
\* ------------------------------------------------------------------------

\* C27: every execution record with status pending is the record of an
\* order that is still in active_orders: once an order has left the active
\* set as done or cancelled, by monitor_active_orders, by cancel_order or by
\* the sweep of emergency_stop, its record is no longer pending.
C27_PendingRecordsAreActive ==
    \A r \in 1..Len(execution_history) :
        execution_history[r].status = "pending"
            => OrderIndex(active_orders, execution_history[r].order_id) # 0

\* C27 witness: monitor_active_orders has seen an order done and marked its
\* record completed
C27_Witness ==
    /\ call.op = "monitor_active_orders"
    /\ \E c \in 1..Len(completed_orders) :
         /\ completed_orders[c].status = "done"
         /\ OrderIndex(active_orders, completed_orders[c].id) = 0
         /\ \E r \in 1..Len(execution_history) :
              /\ execution_history[r].order_id = completed_orders[c].id
              /\ execution_history[r].status = "completed"

\* ------------------------------------------------------------------------
\* SpecThreads: start_trading and stop_trading with the threads they start
\* and leave behind.  stop_trading returns when its joins time out (30 s
\* and 10 s) while a loop sleeps up to update_interval, so start_trading can
\* be called while the threads of the previous start are still alive.  Such
\* a thread is followed in old_threads by where it stands: asleep, at the
\* head of its loop, or in a cycle.  The cycles of the model are those for
\* which the monitor has no opportunity.
\* ------------------------------------------------------------------------

\* where a thread that a new start_trading finds asleep stands
Asleep(at) ==
    IF at = "sleep" THEN "sleep" ELSE "none"

\* start_trading after a stop_trading whose join timed out: the trading
\* thread of the previous start is still in the sleep of its loop
StartTradingEarly ==
    /\ ControlFree
    /\ ~is_running
    /\ pc = "sleep"
    /\ old_threads = NoOldThreads
    /\ is_running' = TRUE
    /\ trading_stats' = [trading_stats EXCEPT !.start_time = << now >>]
    /\ old_threads' = [ trading    |-> Asleep(pc),
                        monitoring |-> Asleep(monitor.pc),
                        loaded     |-> None ]
    /\ monitor' = start_monitoring(monitor)
    /\ pc' = "loop"
    /\ cycle' = NoCycle
    /\ estop' = NoEmergencyStop
    /\ UNCHANGED << position_stops, trailing_stop, recent_decisions,
                    decision_log, ExecutorVars, daily_pnl, last_reset,
                    risk_alerts, trading_enabled, last_trading_cycle,
                    demo_mode, pool, orders_accepted, now, call, ret >>

\* a step of a loop thread that stands at `at` and tests the flag
\* `running` at the head of its loop: the sleep ends; the loop ends or a
\* cycle begins; the cycle ends
OldThreadStep(at, running) ==
    IF at = "sleep" THEN "loop"
    ELSE IF at = "loop" THEN (IF running THEN "cycle" ELSE "none")
    ELSE "sleep"

\* the trading thread of the previous start goes on
OT_Trading ==
    /\ old_threads.trading # "none"
    /\ old_threads.loaded = None
    /\ old_threads' = [old_threads EXCEPT
                         !.trading = OldThreadStep(@, is_running)]
    /\ UNCHANGED << position_stops, trailing_stop, recent_decisions,
                    decision_log, ExecutorVars, TraderVars, demo_mode, pool,
                    monitor, orders_accepted, now, call, ret >>

\* the monitoring thread of the previous start goes on
OT_Monitoring ==
    /\ old_threads.monitoring # "none"
    /\ old_threads' = [old_threads EXCEPT
                         !.monitoring = OldThreadStep(@, monitor.is_running)]
    /\ UNCHANGED << position_stops, trailing_stop, recent_decisions,
                    decision_log, ExecutorVars, TraderVars, demo_mode, pool,
                    monitor, orders_accepted, now, call, ret >>

\* a cycle of the trading loop for which the monitor has no opportunity
QuietCycle ==
    \/ (TL_CycleStart /\ cycle'.opportunities = << >>)
    \/ TL_Sleep

NextThreads ==
    \/ QuietCycle
    \/ MonitoringThread
    \/ (trading_stats.start_time = None /\ StartTrading)
    \/ StartTradingEarly
    \/ StopTrading
    \/ OT_Trading
    \/ OT_Monitoring

SpecThreads ==
    Init /\ [][NextThreads]_vars

\* C28: at most one trading-loop thread and at most one monitoring-loop
\* thread execute cycles: no thread of an earlier start is in a cycle
\* while the thread of the last start is alive.
C28_OneThreadPerLoop ==
    /\ ~(old_threads.trading = "cycle" /\ pc # "idle")
    /\ ~(old_threads.monitoring = "cycle" /\ monitor.pc # "idle")

\* C28 witness: after a stop_trading the thread of the first start has
\* ended at the head of its loop, with no start_trading in between
C28_Witness ==
    /\ ~is_running
    /\ trading_stats.start_time # None
    /\ pc = "idle"
    /\ monitor.pc = "idle"
    /\ old_threads = NoOldThreads
    /\ now > 0

\* ------------------------------------------------------------------------
\* Claims about the loop after an emergency stop (Spec)
\* ------------------------------------------------------------------------

\* C29: once emergency_stop has returned, and as long as trading is
\* neither enabled nor started again, no further order is submitted and
\* the active set does not grow.
C29_NoOrderAfterEmergencyStop ==
    [][ (estop.phase = "done" /\ ~trading_enabled /\ ~is_running) =>
            /\ orders_accepted' = orders_accepted
            /\ Len(active_orders') <= Len(active_orders) ]_vars

\* C29 witness: emergency_stop has returned while the loop was asleep
\* after a cycle that submitted an order
C29_Witness ==
    /\ estop.phase = "done"
    /\ ~trading_enabled
    /\ ~is_running
    /\ pc = "sleep"
    /\ orders_accepted > 0

\* ------------------------------------------------------------------------
\* SpecAnalyze: the cycles of monitoring_loop followed through the calls of
\* analyze_all_coins and the workers of their thread pools.  The monitoring
\* thread is scheduled again and again; a worker may take for ever.
\* ------------------------------------------------------------------------

\* the timeframes of a monitoring cycle
timeframes ==
    << "1h", "1d", "7d" >>

\* future.result(timeout=60)
result_timeout ==
    60

\* no monitoring cycle begins after this time
MaxAnalyzeTime ==
    120

\* self.tradeable_coins; they are fewer than the max_workers = 5 of the
\* pool, so that every task gets a worker at once
tradeable_coins ==
    << "BTC-USD", "ETH-USD" >>

\* what the steps of analyze_all_coins leave alone
NotAnalyzeVars ==
    << position_stops, trailing_stop, recent_decisions, decision_log,
       ExecutorVars, TraderVars, demo_mode, old_threads, orders_accepted,
       call, ret >>

\* analyze_all_coins up to the loop over the futures: a new pool, and a
\* task submitted for every coin
Submit(tf, all) ==
    [ phase       |-> "collect",
      timeframe   |-> tf,
      futures     |-> [k \in 1..Len(tradeable_coins) |-> "running"],
      i           |-> 1,
      results     |-> << >>,
      timed_out   |-> << >>,
      all_results |-> all ]

\* monitor.start_monitoring
AA_StartMonitoring ==
    /\ ~monitor.is_running
    /\ monitor.pc = "idle"
    /\ monitor' = start_monitoring(monitor)
    /\ UNCHANGED << NotAnalyzeVars, pool, now >>

\* the head of monitoring_loop of a running monitor with coins to analyse,
\* up to the first call of analyze_all_coins
AA_Begin ==
    /\ monitor.pc = "loop"
    /\ monitor.is_running
    /\ pool.phase = "idle"
    /\ now <= MaxAnalyzeTime
    /\ monitor' = [monitor EXCEPT !.pc = "analyze"]
    /\ pool' = Submit(1, << >>)
    /\ UNCHANGED << NotAnalyzeVars, now >>

\* a worker ends analyze_coin, with an analysis or with None
AA_Worker ==
    /\ pool.phase = "collect"
    /\ \E k \in 1..Len(pool.futures), outcome \in {"done", "none"} :
         /\ pool.futures[k] = "running"
         /\ pool' = [pool EXCEPT !.futures[k] = outcome]
    /\ UNCHANGED << NotAnalyzeVars, monitor, now >>

\* a loop over the futures that gives the batch up at the first timeout
AA_Collect_abort ==
    /\ pool.phase = "collect"
    /\ pool.i <= Len(pool.futures)
    /\ LET f == pool.futures[pool.i]
       IN  /\ pool' = [pool EXCEPT
                         !.results =
                             IF f = "done"
                             THEN Append(@, Result(tradeable_coins[pool.i],
                                                   "BUY", 80))
                             ELSE @,
                         !.timed_out =
                             IF f = "running"
                             THEN Append(@, tradeable_coins[pool.i])
                             ELSE @,
                         !.i = IF f = "running"
                               THEN Len(pool.futures) + 1
                               ELSE @ + 1]
           /\ now' = IF f = "running" THEN now + result_timeout ELSE now
    /\ UNCHANGED << NotAnalyzeVars, monitor >>

\* one round of the loop over the futures: the result of a task that has
\* ended, or the TimeoutError of future.result after 60 seconds, which is
\* logged
AA_Collect ==
    /\ pool.phase = "collect"
    /\ pool.i <= Len(pool.futures)
    /\ LET f == pool.futures[pool.i]
       IN  /\ pool' = [pool EXCEPT
                         !.results =
                             IF f = "done"
                             THEN Append(@, Result(tradeable_coins[pool.i],
                                                   "BUY", 80))
                             ELSE @,
                         !.timed_out =
                             IF f = "running"
                             THEN Append(@, tradeable_coins[pool.i])
                             ELSE @,
                         !.i = @ + 1]
           /\ now' = IF f = "running" THEN now + result_timeout ELSE now
    /\ UNCHANGED << NotAnalyzeVars, monitor >>

\* the end of the with block, ThreadPoolExecutor.__exit__, which is
\* shutdown(wait=True) and returns when every worker has ended; then the
\* return of analyze_all_coins
AA_Return ==
    /\ pool.phase = "collect"
    /\ pool.i > Len(pool.futures)
    /\ \A k \in 1..Len(pool.futures) : pool.futures[k] # "running"
    /\ pool' = [pool EXCEPT
                  !.phase = "returned",
                  !.all_results =
                      Append(@, [timeframe |-> timeframes[pool.timeframe],
                                 results   |-> pool.results])]
    /\ UNCHANGED << NotAnalyzeVars, monitor, now >>

\* a loop that stores last_analysis after every timeframe
AA_NextTimeframe_partial ==
    /\ pool.phase = "returned"
    /\ IF pool.timeframe < Len(timeframes)
       THEN /\ pool' = Submit(pool.timeframe + 1, pool.all_results)
            /\ monitor' = [monitor EXCEPT
                             !.last_analysis =
                                 << [results |-> pool.all_results] >>]
       ELSE /\ pool' = NoPool
            /\ \E next \in {"sleep", "except"} :
                 monitor' = [monitor EXCEPT
                               !.last_analysis =
                                   << [results |-> pool.all_results] >>,
                               !.pc = next]
    /\ UNCHANGED << NotAnalyzeVars, now >>

\* monitoring_loop after a call of analyze_all_coins: the call for the next
\* timeframe, or after the last one last_analysis and the sleep
AA_NextTimeframe ==
    /\ pool.phase = "returned"
    /\ IF pool.timeframe < Len(timeframes)
       THEN /\ pool' = Submit(pool.timeframe + 1, pool.all_results)
            /\ monitor' = monitor
       ELSE /\ pool' = NoPool
            /\ \E next \in {"sleep", "except"} :
                 monitor' = [monitor EXCEPT
                               !.last_analysis =
                                   << [results |-> pool.all_results] >>,
                               !.pc = next]
    /\ UNCHANGED << NotAnalyzeVars, now >>

\* monitor.stop_monitoring
AA_StopMonitoring ==
    /\ monitor.is_running
    /\ monitor' = stop_monitoring(monitor)
    /\ UNCHANGED << NotAnalyzeVars, pool, now >>

\* the head of monitoring_loop finds is_running false: the thread ends
AA_LoopEnd ==
    /\ monitor.pc = "loop"
    /\ ~monitor.is_running
    /\ monitor' = [monitor EXCEPT !.pc = "idle"]
    /\ UNCHANGED << NotAnalyzeVars, pool, now >>

\* an empty universe that also drops the snapshot
AA_Empty_clear ==
    /\ monitor.pc = "loop"
    /\ monitor.is_running
    /\ now <= MaxAnalyzeTime
    /\ monitor' = [monitor EXCEPT !.pc = "empty", !.last_analysis = << >>]
    /\ UNCHANGED << NotAnalyzeVars, pool, now >>

\* a cycle in which get_tradeable_coins returns no coin: the warning, and
\* the sleep of 5 minutes begins
AA_Empty ==
    /\ monitor.pc = "loop"
    /\ monitor.is_running
    /\ now <= MaxAnalyzeTime
    /\ monitor' = [monitor EXCEPT !.pc = "empty"]
    /\ UNCHANGED << NotAnalyzeVars, pool, now >>

\* an exception between two calls of analyze_all_coins: the handler of
\* the loop logs it, and the sleep of one minute begins
AA_Raise ==
    /\ monitor.pc = "analyze"
    /\ pool.phase = "returned"
    /\ monitor' = [monitor EXCEPT !.pc = "except"]
    /\ pool' = NoPool
    /\ UNCHANGED << NotAnalyzeVars, now >>

\* time.sleep(300) after an empty universe
empty_backoff ==
    300

\* time.sleep(60) in the exception handler of monitoring_loop
error_backoff ==
    60

\* the sleep after an empty universe or an exception ends
AA_Backoff ==
    /\ monitor.pc \in {"empty", "except"}
    /\ now' = now + (IF monitor.pc = "empty" THEN empty_backoff
                                             ELSE error_backoff)
    /\ monitor' = [monitor EXCEPT !.pc = "loop"]
    /\ UNCHANGED << NotAnalyzeVars, pool >>

\* the steps of the monitoring thread
AA_MonitoringThread ==
    \/ AA_Begin
    \/ AA_Collect
    \/ AA_Return
    \/ AA_NextTimeframe
    \/ ML_Sleep
    \/ AA_LoopEnd
    \/ AA_Empty
    \/ AA_Raise
    \/ AA_Backoff

NextAnalyze ==
    \/ AA_StartMonitoring
    \/ AA_StopMonitoring
    \/ AA_MonitoringThread
    \/ AA_Worker

SpecAnalyze ==
    /\ Init
    /\ [][NextAnalyze]_vars
    /\ WF_vars(AA_MonitoringThread)

\* C30: a monitoring cycle that has begun its analysis gets to the end of
\* it, the sleep of the cycle or the handler of an exception, whatever the
\* workers do: analyze_all_coins returns, for every timeframe, also while a
\* worker is still running.
C30_SlowWorkerDoesNotBlock ==
    (monitor.pc = "analyze") ~> (monitor.pc # "analyze")

\* C30 witness: the loop over the futures has ended with a timeout while a
\* worker is still running
C30_Witness ==
    /\ pool.phase = "collect"
    /\ pool.i > Len(pool.futures)
    /\ \E k \in 1..Len(pool.futures) : pool.futures[k] = "running"
    /\ now > 0

\* the symbols of a list of analysis results
ResultSymbols(results) ==
    { results[j].symbol : j \in 1..Len(results) }

\* C31: what analyze_all_coins returns holds an entry for a symbol exactly
\* when the analysis of the symbol returned a value and the wait for it did
\* not time out, and never two entries for a symbol.
C31_AnalyzeAllFailsSoft ==
    pool.phase = "returned" =>
        LET returned == pool.all_results[Len(pool.all_results)].results
        IN  /\ \A k \in 1..Len(tradeable_coins) :
                 tradeable_coins[k] \in ResultSymbols(returned)
                     <=> /\ pool.futures[k] = "done"
                         /\ tradeable_coins[k] \notin
                                { pool.timed_out[j] :
                                      j \in 1..Len(pool.timed_out) }
            /\ \A a, b \in 1..Len(returned) :
                 returned[a].symbol = returned[b].symbol => a = b

\* C31 witness: analyze_all_coins has returned one symbol after the wait
\* for the first symbol timed out
C31_Witness ==
    /\ pool.phase = "returned"
    /\ pool.timed_out = << tradeable_coins[1] >>
    /\ ResultSymbols(pool.results) = { tradeable_coins[2] }

\* C32: the thread of monitoring_loop ends only in a step that finds
\* is_running false; at the head of the loop a running monitor begins a
\* cycle; the sleep after an empty universe takes 5 minutes and the sleep
\* after an exception one minute, and both lead to the head of the loop; a
\* cycle that finds an empty universe leaves last_analysis as it is.
C32_MonitorLoopGoesOn ==
    /\ [][ (monitor.pc # "idle" /\ monitor'.pc = "idle")
           => (~monitor.is_running /\ monitor.pc = "loop") ]_vars
    /\ [][ (monitor.pc = "loop" /\ monitor'.pc # "loop" /\ monitor.is_running)
           => monitor'.pc \in {"analyze", "empty"} ]_vars
    /\ [][ (monitor.pc = "empty" /\ monitor'.pc # "empty")
           => (monitor'.pc = "loop" /\ now' = now + empty_backoff) ]_vars
    /\ [][ (monitor.pc = "except" /\ monitor'.pc # "except")
           => (monitor'.pc = "loop" /\ now' = now + error_backoff) ]_vars
    /\ [][ (monitor.pc # "empty" /\ monitor'.pc = "empty")
           => monitor'.last_analysis = monitor.last_analysis ]_vars

\* C32 witness: a running monitor that has published a snapshot has found
\* an empty universe
C32_Witness ==
    /\ monitor.pc = "empty"
    /\ monitor.is_running
    /\ monitor.last_analysis # << >>

\* ------------------------------------------------------------------------
\* SpecSnapshot: the monitoring thread, its workers, and a reader that
\* calls get_latest_opportunities once while a cycle is under way
\* ------------------------------------------------------------------------

\* a worker ends analyze_coin with an analysis
AA_WorkerDone ==
    /\ AA_Worker
    /\ \A k \in 1..Len(pool.futures) : pool'.futures[k] # "none"

\* get_latest_opportunities(), called during a monitoring cycle
RD_GetLatestOpportunities ==
    /\ monitor.pc = "analyze"
    /\ call.op = "init"
    /\ MO_GetLatestOpportunities
    /\ call'.limit = 10

NextSnapshot ==
    \/ AA_StartMonitoring
    \/ AA_Begin
    \/ AA_Collect
    \/ AA_Return
    \/ AA_NextTimeframe
    \/ AA_Raise
    \/ AA_Backoff
    \/ ML_Sleep
    \/ AA_WorkerDone
    \/ RD_GetLatestOpportunities

SpecSnapshot ==
    Init /\ [][NextSnapshot]_vars

\* a snapshot holds the results of the three timeframes, in their order
Complete(analysis) ==
    [k \in 1..Len(analysis[1].results) |-> analysis[1].results[k].timeframe]
        = timeframes

\* C33: last_analysis is empty or holds the results of all three
\* timeframes, and so does the snapshot a call of get_latest_opportunities
\* has read during a monitoring cycle.
C33_SnapshotIsAtomic ==
    /\ monitor.last_analysis # None => Complete(monitor.last_analysis)
    /\ (call.op = "get_latest_opportunities" /\ call.analysis # None)
           => Complete(call.analysis)

\* C33 witness: a reader has read the snapshot of the cycle before while
\* the running cycle had the results of its first timeframe
C33_Witness ==
    /\ call.op = "get_latest_opportunities"
    /\ call.analysis # None
    /\ monitor.pc = "analyze"
    /\ pool.timeframe = 2
    /\ Len(pool.all_results) = 1

\* ------------------------------------------------------------------------
\* Claims about the stop-losses and the sells of the loop (Spec)
\* ------------------------------------------------------------------------

\* the symbols with a stop-loss that has not triggered
Untriggered(stops) ==
    { stops[k].symbol : k \in { n \in 1..Len(stops) : ~stops[n].triggered } }

\* C34: a cycle that goes to its sleep without the check of the stop-losses,
\* and is not given up for a portfolio error or a critical alert, leaves no
\* untriggered stop-loss behind; and the check of a cycle is made with the
\* symbols of all untriggered stop-losses.
C34_StopsCheckedEveryCycle ==
    /\ [][ ( /\ pc \in {"loop", "decide"}
             /\ pc' = "sleep"
             /\ ~cycle'.portfolio_error
             /\ ~HasCriticalAlert(cycle'.alerts) )
           => Untriggered(position_stops) = {} ]_vars
    /\ [][ (pc = "monitor" /\ pc' # "monitor")
           => Untriggered(position_stops)
                  \subseteq SymbolsOf(cycle.opportunities) ]_vars

\* C34 witness: a cycle without opportunities has gone to its sleep while a
\* stop-loss had not triggered
C34_Witness ==
    /\ pc = "sleep"
    /\ cycle.opportunities = << >>
    /\ cycle.cycle_start > 0
    /\ Untriggered(position_stops) # {}

\* the orders of a list that are not in another one
NewOrders(after, before) ==
    { i \in 1..Len(after) :
        \A j \in 1..Len(before) : before[j] # after[i] }

\* C35: every decision make_trading_decision has returned is a BUY; and a
\* step that submits a sell order is the sell of a stop-loss the check of
\* the cycle has found triggered, for the balance the position of the symbol
\* has in a portfolio fetched in that step.
C35_SellsComeFromStops ==
    /\ [](\A i \in 1..Len(decision_log) : decision_log[i].action = "BUY")
    /\ [][ \A i \in NewOrders(active_orders', active_orders) :
             active_orders'[i].side = "sell" =>
                 /\ pc = "stop_sell"
                 /\ active_orders'[i].symbol =
                        cycle.triggered_stops[cycle.j].symbol
                 /\ \E portfolio \in SellPortfolios :
                      LET currency == CurrencyOf(active_orders'[i].symbol)
                      IN  /\ currency \in DOMAIN portfolio.positions
                          /\ active_orders'[i].amount =
                                 portfolio.positions[currency].balance ]_vars

\* C35 witness: the loop has submitted the sell of a triggered stop-loss
\* after a decision of the engine
C35_Witness ==
    /\ decision_log # << >>
    /\ cycle.triggered_stops # << >>
    /\ \E i \in 1..Len(active_orders) :
         /\ active_orders[i].side = "sell"
         /\ active_orders[i].created_at >= cycle.cycle_start

\* ------------------------------------------------------------------------
\* Claims about trading_stats (Spec)
\* ------------------------------------------------------------------------

\* the position_size_usd of the decisions of a batch that were executed
\* with success, from the r-th result on
RECURSIVE ExecutedVolume(_, _, _)
ExecutedVolume(decisions, results, r) ==
    IF r > Len(results) THEN 0
    ELSE (IF results[r].success
          THEN decisions[results[r].decision_index + 1].position_size_usd
          ELSE 0)
         + ExecutedVolume(decisions, results, r + 1)

\* C37: the step of a cycle that updates trading_stats adds to total_volume
\* the position_size_usd of the decisions the cycle has executed.
C37_VolumeGrowsWithTrades ==
    [][ (pc = "results" /\ pc' = "monitor") =>
            trading_stats'.total_volume =
                trading_stats.total_volume
                + ExecutedVolume(cycle.approved_decisions,
                                 cycle.execution_results, 1) ]_vars

\* C37 witness: a cycle has executed a decision of a positive size with
\* success and updated trading_stats
C37_Witness ==
    /\ pc = "monitor"
    /\ trading_stats.successful_trades > 0
    /\ ExecutedVolume(cycle.approved_decisions, cycle.execution_results, 1) > 0

\* ------------------------------------------------------------------------
\* SpecRestart: the trading loop with stop_trading and start_trading, and
\* the trading thread of an earlier start that a later start found asleep.
\* Of a cycle of that thread the model follows the update of trading_stats
\* for one decision executed with success; trading_stats["total_trades"]
\* += n is a load of the counter and a store of the sum, and the thread of
\* the last start can run between the two.  The effects of such a cycle on
\* the executor and on the stop-losses are left out.
\* ------------------------------------------------------------------------

\* the thread of an earlier start updates trading_stats while fewer trades
\* than this are counted
MaxRestartTrades ==
    2

\* the thread of the earlier start loads total_trades for its +=
OT_LoadStats ==
    /\ old_threads.trading = "cycle"
    /\ old_threads.loaded = None
    /\ trading_stats.total_trades < MaxRestartTrades
    /\ old_threads' = [old_threads EXCEPT
                         !.loaded = << trading_stats.total_trades >>]
    /\ UNCHANGED << position_stops, trailing_stop, recent_decisions,
                    decision_log, ExecutorVars, TraderVars, demo_mode, pool,
                    monitor, orders_accepted, now, call, ret >>

\* the thread of the earlier start stores total_trades and goes through
\* the other updates of its cycle
OT_StoreStats ==
    /\ old_threads.loaded # None
    /\ trading_stats' =
           [trading_stats EXCEPT
              !.cycles_completed = @ + 1,
              !.total_trades = old_threads.loaded[1] + 1,
              !.successful_trades = @ + 1]
    /\ old_threads' = [old_threads EXCEPT
                         !.trading = "updated", !.loaded = None]
    /\ UNCHANGED << position_stops, trailing_stop, recent_decisions,
                    decision_log, ExecutorVars, daily_pnl, last_reset,
                    risk_alerts, is_running, trading_enabled,
                    last_trading_cycle, pc, cycle, estop, demo_mode, pool,
                    monitor, orders_accepted, now, call, ret >>

\* the cycles of the thread of the last start: those whose portfolio
\* fetch succeeds, whose decisions raise no exception and whose check of
\* the stop-losses gets no price
RestartCycle ==
    \/ (TL_CycleStart /\ ~cycle'.portfolio_error)
    \/ (TL_Decide /\ pc' # "except")
    \/ TL_Execute
    \/ TL_Results
    \/ (TL_Monitor /\ cycle'.current_prices = << >>)
    \/ TL_Sleep

NextRestart ==
    \/ (trading_stats.start_time = None /\ StartTrading)
    \/ StopTrading
    \/ StartTradingEarly
    \/ RestartCycle
    \/ OT_Trading
    \/ OT_LoadStats
    \/ OT_StoreStats

SpecRestart ==
    Init /\ [][NextRestart]_vars

\* no loop thread is in a cycle
BetweenCycles ==
    /\ pc \in {"idle", "loop", "sleep"}
    /\ old_threads.trading \in {"none", "sleep", "loop"}

\* C36: no step lowers cycles_completed, total_trades, successful_trades,
\* failed_trades or total_volume, and whenever no loop thread is in a cycle
\* total_trades = successful_trades + failed_trades.
C36_CountersGrow ==
    /\ [][ /\ trading_stats'.cycles_completed >= trading_stats.cycles_completed
           /\ trading_stats'.total_trades >= trading_stats.total_trades
           /\ trading_stats'.successful_trades
                  >= trading_stats.successful_trades
           /\ trading_stats'.failed_trades >= trading_stats.failed_trades
           /\ trading_stats'.total_volume >= trading_stats.total_volume ]_vars
    /\ [](BetweenCycles =>
              trading_stats.total_trades =
                  trading_stats.successful_trades
                  + trading_stats.failed_trades)

\* C36 witness: after a stop and a second start the trader has counted the
\* trades of cycles, and no loop thread is in a cycle
C36_Witness ==
    /\ BetweenCycles
    /\ is_running
    /\ old_threads.trading # "none"
    /\ trading_stats.total_trades > 1

\* ------------------------------------------------------------------------
\* SpecAfford: make_trading_decision called on accounts that hold a coin
\* which is not among the opportunities; the account does not change while
\* a call runs
\* ------------------------------------------------------------------------

\* the account answers: cash only, and cash of 30% beside a coin that is
\* 70% of the portfolio
AffordAccounts ==
    { [error |-> FALSE, usd |-> 10000, held |-> << >>],
      [error |-> FALSE, usd |-> 3000, held |-> [c \in {"SOL"} |-> 70]] }

AffordTicker ==
    [s \in Symbols \cup {"SOL-USD"} |->
        IF s = "SOL-USD" THEN 100 ELSE 50000]

\* make_trading_decision; the call keeps the portfolio it has fetched, and
\* the decisions are returned whole
DE_DecideBatch ==
    \E opps \in OppLists, account \in AffordAccounts :
        LET portfolio == get_portfolio_value(account, AffordTicker)
            r == make_trading_decision(opps, portfolio,
                                       [i \in 1..Len(opps) |-> portfolio],
                                       now, recent_decisions)
        IN  /\ recent_decisions' = r.recent
            /\ decision_log' = decision_log \o LogOf(r.decisions)
            /\ call' = [op |-> "decide_batch", portfolio |-> portfolio]
            /\ ret' = [kind |-> "batch", decisions |-> r.decisions]
            /\ UNCHANGED << now, NotDecisionVars >>

NextAfford ==
    \/ DE_DecideBatch
    \/ DE_Advance

SpecAfford ==
    InitDecide /\ [][NextAfford]_vars

\* the sizes of a list of decisions, from the d-th on
RECURSIVE BatchSize(_, _)
BatchSize(decisions, d) ==
    IF d > Len(decisions) THEN 0
    ELSE decisions[d].position_size_usd + BatchSize(decisions, d + 1)

\* C38: the sizes of the BUY decisions of one call of make_trading_decision
\* add up to no more than the cash balance, and with all of them executed
\* the invested fraction is at most max_total_invested.
C38_BatchIsAffordable ==
    call.op = "decide_batch" =>
        LET portfolio == call.portfolio
            sum       == BatchSize(ret.decisions, 1)
        IN  /\ sum <= portfolio.cash_balance
            /\ (portfolio.total_value_usd - portfolio.cash_balance + sum) * 100
                   <= max_total_invested * portfolio.total_value_usd

\* C38 witness: a call has returned two BUY decisions
C38_Witness ==
    /\ call.op = "decide_batch"
    /\ Len(ret.decisions) = 2

\* ------------------------------------------------------------------------
\* Claims about the daily P&L of the loop (Spec)
\* ------------------------------------------------------------------------

\* C39: the step of the loop that submits the sell of a stop-loss which has
\* triggered below its entry price lowers daily_pnl.
C39_LossesFeedDailyPnl ==
    [][ ( /\ pc = "stop_sell"
          /\ orders_accepted' > orders_accepted
          /\ cycle.triggered_stops[cycle.j].trigger_price
                 < cycle.triggered_stops[cycle.j].entry_price )
        => daily_pnl' < daily_pnl ]_vars

\* C39 witness: the loop has sold every stop-loss the cycle found triggered,
\* one of them below its entry price, and daily_pnl is 0
C39_Witness ==
    /\ pc = "sleep"
    /\ cycle.triggered_stops # << >>
    /\ \A t \in 1..Len(cycle.triggered_stops) :
         /\ cycle.triggered_stops[t].trigger_price
                < cycle.triggered_stops[t].entry_price
         /\ ~HasStop(position_stops, cycle.triggered_stops[t].symbol)
    /\ daily_pnl = 0

\* ------------------------------------------------------------------------
\* Claims about the trailing stop's invariant (SpecStops)
\* ------------------------------------------------------------------------

\* C40: with trailing enabled every stop config has highest_price >=
\* entry_price and stop_price = highest_price * (1 - stop_percentage), and a
\* check_stop_triggers call whose price for an untriggered stop is above its
\* highest price leaves that stop untriggered and out of the returned list
C40_TrailingStopInvariant ==
    /\ [](trailing_stop =>
            \A i \in 1..Len(position_stops) :
                /\ position_stops[i].highest_price >= position_stops[i].entry_price
                /\ position_stops[i].stop_price =
                       StopPriceFor(position_stops[i].highest_price,
                                    position_stops[i].stop_percentage))
    /\ [][ (trailing_stop /\ call'.op = "check_stop_triggers") =>
             \A i \in 1..Len(position_stops) :
                ( /\ ~position_stops[i].triggered
                  /\ position_stops[i].stop_percentage > 0
                  /\ position_stops[i].symbol \in DOMAIN call'.prices
                  /\ call'.prices[position_stops[i].symbol]
                         > position_stops[i].highest_price )
                => /\ ~position_stops'[i].triggered
                   /\ position_stops'[i].highest_price =
                          call'.prices[position_stops[i].symbol]
                   /\ position_stops[i].symbol
                          \notin SymbolsOf(ret'.triggered_stops) ]_vars

\* a check_stop_triggers call has just set a new high above the entry price
\* of a stop with a custom percentage, and the stop is not triggered
C40_Witness ==
    /\ trailing_stop
    /\ call.op = "check_stop_triggers"
    /\ \E i \in 1..Len(position_stops) :
          /\ position_stops[i].symbol \in DOMAIN call.prices
          /\ call.prices[position_stops[i].symbol] = position_stops[i].highest_price
          /\ position_stops[i].highest_price > position_stops[i].entry_price
          /\ position_stops[i].stop_percentage = CustomStopPct
          /\ ~position_stops[i].triggered

=============================================================================
